---- MODULE Spec2Model ----
(***************************************************************************)
(* viking-log-keeper: the synchronisation of a collated batch of launches  *)
(* (and of aircraft utilisation records) with the MongoDB store            *)
(* (log_keeper/output.py), the ingestion of log sheets                     *)
(* (log_keeper/ingest.py), and the login and the upload of the dashboard   *)
(* (dashboard/auth.py, dashboard/utils.py).                                *)
(*                                                                         *)
(* A collection is a multiset of documents: a function from the row        *)
(* alphabet to the number of stored copies.  A batch (a pandas DataFrame)  *)
(* is a sequence of rows.  A database is a function from the names of the  *)
(* collections that exist to their contents.                               *)
(***************************************************************************)
EXTENDS Integers, Sequences, FiniteSets, TLC

VARIABLES
    db,         \* db.db: collection name -> contents, for the collections that exist
    clock,      \* the wall clock (datetime.today())
    calls,      \* number of sync calls made so far
    fn,         \* the sync function running, or that returned last
    pc,         \* "idle", the step the running call takes next, or "returned"
    df,         \* the batch of the call (launches_df / aircraft_info)
    ops,        \* the steps of the call that reached the store, in order:
                \* "backup" (its list_collection_names), "bulk_write", "insert_many"
    outcome,    \* how the call ended
    pre,        \* contents of the call's collection when the call began
    again,      \* outcome of the call this call repeats; NoCall for a first call
    goal,       \* what a key-scoped replace by df makes of the contents the first call found
    found,      \* contents of the call's collection when the first call with df began
    made,       \* history: the backups the calls wrote, each with its day
    log_sheet_df,   \* the FORMATTED sheet read so far (extract_launches' raw_df);
                    \* the master log handed to sanitise_log_sheets
    raised,         \* what validate_log_sheet did with it
    collated_df,    \* what sanitise_log_sheets made of the master log
    twice_df,       \* what sanitise_log_sheets made of its own output
    dir_contents,   \* the entries of the log sheet directory, as glob lists them
    log_sheet_list, \* collate_log_sheets: the sheets ingested so far
    warnings,       \* collate_log_sheets: the warnings written so far
    attempted,      \* collate_log_sheets: the files handed to ingest_log_sheet
    collate_pc,     \* collate_log_sheets: "idle", "loop", "sanitise" or "done"
    upload,         \* the uploaded workbook: its name and its two sheets
    ingested,       \* what ingest_log_sheet_from_upload made of it
    aircraft_info_df,   \* the aircraft information handed to validate_aircraft_info
    aircraft_raised,    \* what validate_aircraft_info did with it
    writers,        \* two concurrent calls of update_launches_collection: the
                    \* step each takes next and its batch
    schedule,       \* the writes of the two calls to the launches collection,
                    \* in the order the store applied them
    auth_config,    \* the fields of an AuthConfig object
    login,          \* the _login calls made on it: how many, and what the
                    \* last one returned
    session         \* upload_log_sheets in a dashboard session: its files, its
                    \* locals, what it showed, and the sync functions it called,
                    \* each with how the call ended

\* The variables of the synchronisation and those of the ingestion.
sync == <<db, clock, calls, fn, pc, df, ops, outcome, pre, again, goal, found, made>>
sheet == <<log_sheet_df, raised>>
sanitiser == <<collated_df, twice_df>>
collator == <<dir_contents, log_sheet_list, warnings, attempted, collate_pc>>
uploader == <<upload, ingested>>
utilisation == <<aircraft_info_df, aircraft_raised>>
concurrent == <<writers, schedule>>
authentication == <<auth_config, login>>
rest == <<utilisation, concurrent, authentication, session>>
ingest == <<sheet, sanitiser, collator, uploader, rest>>
vars == <<sync, ingest>>

(***************************************************************************)
(* Bounds of the model.                                                    *)
(***************************************************************************)
\* Longest batch handed to a sync call.
MaxBatch == 2
\* Most documents in a collection before the first call.
MaxStored == 1
\* Number of sync calls in one behaviour.
MaxCalls == 2
\* Last instant of the wall clock.
MaxClock == 2

\* Instants of the wall clock per calendar day.
TicksPerDay == 2

(***************************************************************************)
(* Row alphabets.                                                          *)
(***************************************************************************)
\* pd.NA: a missing Aircraft cell of a 'string' column.
NA == "<NA>"
\* Calendar dates of the flights (ordinals).
Dates == {1, 2}
\* Tail numbers, in their sort order.
Tails == <<"ZE123", "ZE456">>
Aircraft == {Tails[i] : i \in DOMAIN Tails}
\* One row of the launches DataFrame: the composite key and the descriptive
\* fields (here FlightTime stands for all of them).
LaunchRows == [Date : Dates, Aircraft : Aircraft \cup {NA}, FlightTime : {30, 45}]
\* One row of the aircraft information DataFrame.
AircraftRows == [Date : Dates, Aircraft : Aircraft \cup {NA}, LaunchesAfter : {100}]

\* Database.launches_collection and Database.aircraft_info_collection.
launches_collection == "log_sheets"
aircraft_info_collection == "aircraft"

(***************************************************************************)
(* Multisets of documents and DataFrames.                                  *)
(***************************************************************************)
SeqsUpTo(S, n) == UNION {[1..k -> S] : k \in 0..n}

\* The empty collection over the row alphabet R.
NoDocuments(R) == [r \in R |-> 0]

\* launches_df.to_dict('records'): one document per row, duplicates kept.
to_dict(R, frame) ==
    [r \in R |-> Cardinality({i \in DOMAIN frame : frame[i] = r})]

\* The composite key of a row.
KeyOf(r) == [Date |-> r.Date, Aircraft |-> r.Aircraft]

\* A key with a missing component.
IsNullKey(k) == k.Aircraft = NA

\* Mutant: only the group of the first row is iterated.
groupby_first(frame) ==
    {KeyOf(frame[i]) : i \in {j \in DOMAIN frame : j = 1 /\ ~IsNullKey(KeyOf(frame[j]))}}

\* df.groupby([...]): the distinct keys of the rows; rows whose key has a
\* missing component belong to no group (dropna=True).
groupby(frame) ==
    {KeyOf(frame[i]) : i \in {j \in DOMAIN frame : ~IsNullKey(KeyOf(frame[j]))}}

Rank(a) == CHOOSE i \in DOMAIN Tails : Tails[i] = a

\* Order of the groups: by the columns of the groupby, left to right
\* (['Date', 'Aircraft'] for launches, ['Aircraft', 'Date'] for aircraft).
KeyLess(by, k1, k2) ==
    IF by = <<"Date", "Aircraft">>
    THEN \/ k1.Date < k2.Date
         \/ k1.Date = k2.Date /\ Rank(k1.Aircraft) < Rank(k2.Aircraft)
    ELSE \/ Rank(k1.Aircraft) < Rank(k2.Aircraft)
         \/ k1.Aircraft = k2.Aircraft /\ k1.Date < k2.Date

\* The keys of S as the sequence groupby iterates them (sort=True).
RECURSIVE SortedKeys(_, _)
SortedKeys(by, S) ==
    IF S = {} THEN <<>>
    ELSE LET m == CHOOSE k \in S : \A o \in S \ {k} : KeyLess(by, k, o)
         IN <<m>> \o SortedKeys(by, S \ {m})

(***************************************************************************)
(* The store operations (pymongo).                                         *)
(***************************************************************************)
\* Mutant: the query matches on Date alone.
DeleteManyDateOnly(coll, key) ==
    [r \in DOMAIN coll |-> IF r.Date = key.Date THEN 0 ELSE coll[r]]

\* Mutant: one matching document is deleted (DeleteOne).
DeleteOne(coll, key) ==
    LET matching == {r \in DOMAIN coll : KeyOf(r) = key /\ coll[r] > 0}
    IN IF matching = {} THEN coll
       ELSE [coll EXCEPT ![CHOOSE r \in matching : TRUE] = @ - 1]

\* DeleteMany({"Date": date, "Aircraft": aircraft}) applied to a collection.
DeleteMany(coll, key) ==
    [r \in DOMAIN coll |-> IF KeyOf(r) = key THEN 0 ELSE coll[r]]

\* Mutant: the delete operations are prepared and never written.
bulk_write_nothing(coll, delete_ops, n) == coll

\* collection.bulk_write(delete_ops), of which the first n operations are
\* applied (all of them unless the write fails on the way).
RECURSIVE bulk_write(_, _, _)
bulk_write(coll, delete_ops, n) ==
    IF n = 0 THEN coll
    ELSE DeleteMany(bulk_write(coll, delete_ops, n - 1), delete_ops[n])

\* collection.insert_many(documents), of which the first n documents are
\* stored (all of them unless the write fails on the way).
insert_many(coll, documents, n) ==
    [r \in DOMAIN coll |->
        coll[r] + Cardinality({i \in 1..n : documents[i] = r})]

\* bson cannot encode pd.NA: insert_many raises InvalidDocument before
\* anything is sent.
Encodable(documents) == \A i \in DOMAIN documents : documents[i].Aircraft # NA

\* Mutant: the format keeps the time of day.
strftime_with_time(t) == t

\* datetime.today().strftime('%y%m%d'): the calendar day of an instant.
strftime(t) == t \div TicksPerDay

\* Mutant: every backup is named after the launches collection.
BackupNameOfLaunches(collection, yymmdd) == <<launches_collection, yymmdd>>

\* f"{collection}_{today}": the name of a backup collection.
BackupName(collection, yymmdd) == <<collection, yymmdd>>


(***************************************************************************)
(* Initial state: a database before the first sync call.                   *)
(***************************************************************************)
NoCall == [status |-> "none", at |-> "none"]
Running == [status |-> "running", at |-> "none"]
Returned(status, at) == [status |-> status, at |-> at]

\* The rows a collection can hold (documents that bson can encode).
Storable(R) == {r \in R : r.Aircraft # NA}

InitialContents(R) == {to_dict(R, s) : s \in SeqsUpTo(Storable(R), MaxStored)}

\* A fixed non-empty content for the collection a behaviour does not vary.
SomeContents(R) ==
    to_dict(R, <<CHOOSE r \in Storable(R) : r.Date = 1 /\ r.Aircraft = Tails[1]>>)

\* Contents of a collection of database d, none if it does not exist.
ContentsIn(d, name, R) == IF name \in DOMAIN d THEN d[name] ELSE NoDocuments(R)
Contents(name, R) == ContentsIn(db, name, R)

\* The database holding the collections `present` with contents l and a.
Database(present, l, a) ==
    [n \in {<<c>> : c \in present} |-> IF n = <<launches_collection>> THEN l ELSE a]

Both == {launches_collection, aircraft_info_collection}

\* No sync call has been made.
NoSyncCall ==
    /\ clock = 0
    /\ calls = 0
    /\ fn = "none"
    /\ pc = "idle"
    /\ df = <<>>
    /\ ops = <<>>
    /\ outcome = NoCall
    /\ pre = NoDocuments(LaunchRows)
    /\ again = NoCall
    /\ goal = NoDocuments(LaunchRows)
    /\ found = NoDocuments(LaunchRows)

\* No log sheet has been read.
NoSheet == [raises |-> "nothing", message |-> "not validated"]

\* sanitise_log_sheets has not been called.
DataFrame(columns, rows) == [columns |-> columns, rows |-> rows]
NotCalled == [raises |-> "not called", message |-> "", returns |-> DataFrame({}, <<>>)]
NotSanitised ==
    /\ collated_df = NotCalled
    /\ twice_df = NotCalled

\* Nothing has been uploaded.
NoWorkbook == [name |-> <<"", "", "">>, formatted |-> <<>>, aircraft |-> <<>>]
NotIngested ==
    [raises |-> "not called", message |-> "",
     raw_df |-> DataFrame({}, <<>>), aircraft_info |-> DataFrame({}, <<>>)]
NotUploaded ==
    /\ upload = NoWorkbook
    /\ ingested = NotIngested

\* validate_aircraft_info has not been called.
NotChecked ==
    /\ aircraft_info_df = <<>>
    /\ aircraft_raised = NoSheet

\* No concurrent call has begun.
Writers == {1, 2}
NoWriters ==
    /\ writers = [w \in Writers |-> [pc |-> "idle", launches_df |-> <<>>]]
    /\ schedule = <<>>

\* AuthConfig(): the defaults of the dataclass; in the dashboard vgs and
\* password are not loaded from the keyring.
NoLogin ==
    /\ auth_config = [vgs |-> "None", password |-> "None", authenticated |-> FALSE,
                      connected |-> FALSE, allowed_vgs |-> {}]
    /\ login = [calls |-> 0, returns |-> "not called"]

\* upload_log_sheets has not been called.
NoSession ==
    session = [pc |-> "idle", files |-> <<>>, index |-> 0,
               log_sheet_list |-> <<>>, aircraft_info_list |-> <<>>,
               log_sheet_df |-> DataFrame({}, <<>>),
               aircraft_info_df |-> DataFrame({}, <<>>),
               collated_df |-> DataFrame({}, <<>>),
               shown |-> <<>>, status |-> <<>>, called |-> <<>>,
               raises |-> "nothing"]

\* Nothing but the synchronisation and the ingestion of files has run.
RestIdle ==
    /\ NotChecked
    /\ NoWriters
    /\ NoLogin
    /\ NoSession

\* collate_log_sheets has not been called.
NotCollated ==
    /\ dir_contents = <<>>
    /\ log_sheet_list = <<>>
    /\ warnings = <<>>
    /\ attempted = <<>>
    /\ collate_pc = "idle"

\* Either collection may be missing; one of the two holds arbitrary documents;
\* a backup of the aircraft collection named for today may exist already.
Init ==
    /\ \/ \E l \in InitialContents(LaunchRows), present \in {Both, {aircraft_info_collection}} :
             /\ db = Database(present, l, SomeContents(AircraftRows))
             /\ made = {}
       \/ \E a \in InitialContents(AircraftRows), present \in {Both, {launches_collection}},
             backed_up \in BOOLEAN :
             LET main == Database(present, SomeContents(LaunchRows), a)
                 name == BackupName(aircraft_info_collection, strftime(0))
             IN IF backed_up /\ aircraft_info_collection \in present
                THEN /\ db = (name :> NoDocuments(AircraftRows)) @@ main
                     /\ made = {[name |-> name, day |-> 0]}
                ELSE /\ db = main
                     /\ made = {}
    /\ NoSyncCall
    /\ log_sheet_df = <<>>
    /\ raised = NoSheet
    /\ NotSanitised
    /\ NotCollated
    /\ NotUploaded
    /\ RestIdle

(***************************************************************************)
(* Steps shared by the two sync functions.                                 *)
(***************************************************************************)
\* Key-scoped replace, as the specification words it: the rows of every key
\* of the batch are the batch's rows, the rows of every other key stay.
Replaced(contents, batch) ==
    [r \in DOMAIN contents |->
        IF \E i \in DOMAIN batch : KeyOf(batch[i]) = KeyOf(r)
        THEN Cardinality({i \in DOMAIN batch : batch[i] = r})
        ELSE contents[r]]

\* Mutant: the DataFrame is not tested for emptiness.
EnterUntested(f, collection, R, batch) ==
    /\ calls < MaxCalls
    /\ calls' = calls + 1
    /\ fn' = f
    /\ df' = batch
    /\ ops' = <<>>
    /\ pre' = Contents(<<collection>>, R)
    /\ pc' = "backup"
    /\ outcome' = Running
    /\ UNCHANGED <<db, clock, made>>
    /\ UNCHANGED ingest

\* Entry of a sync function: an empty DataFrame returns at once.
Enter(f, collection, R, batch) ==
    /\ calls < MaxCalls
    /\ calls' = calls + 1
    /\ fn' = f
    /\ df' = batch
    /\ ops' = <<>>
    /\ pre' = Contents(<<collection>>, R)
    /\ IF batch = <<>>
       THEN /\ pc' = "returned"
            /\ outcome' = Returned("ok", "empty")
       ELSE /\ pc' = "backup"
            /\ outcome' = Running
    /\ UNCHANGED <<db, clock, made>>
    /\ UNCHANGED ingest

\* A first call with a batch.
Call(f, collection, R, batch) ==
    /\ pc = "idle"
    /\ Enter(f, collection, R, batch)
    /\ again' = NoCall
    /\ goal' = Replaced(Contents(<<collection>>, R), batch)
    /\ found' = Contents(<<collection>>, R)

\* The caller calls the function once more with its unchanged batch (a retry
\* after an error, or a second run).
CallAgain(f, collection, R) ==
    /\ pc = "returned"
    /\ fn = f
    /\ Enter(f, collection, R, df)
    /\ again' = outcome
    /\ UNCHANGED <<goal, found>>

\* Mutant: the error is recorded and the function goes on.
RaiseAndGoOn(status) ==
    /\ pc' = "prepare"
    /\ outcome' = Returned(status, pc)

\* The call raises: it ends where it is.
Raise(status) ==
    /\ pc' = "returned"
    /\ outcome' = Returned(status, pc)

\* db.db.drop_collection(name)
drop_collection(d, name) == [n \in DOMAIN d \ {name} |-> d[n]]

\* Mutant: the pipeline has no $out stage.
aggregate_match_only(d, collection, name) == d

\* collection.aggregate([{"$match": {}}, {"$out": name}]): the documents of
\* the collection become the contents of the named collection, replacing it.
aggregate_out(d, collection, name) == (name :> d[<<collection>>]) @@ d

\* The backups written so far, after a write (or a drop) of `name`.
Made(name, written) ==
    {m \in made : m.name # name}
        \cup (IF written THEN {[name |-> name, day |-> clock \div TicksPerDay]} ELSE {})

\* Mutant: a backup of today that exists is kept as it is.
BackupOncePerDay(collection, always) ==
    LET collection_search_string == BackupName(collection, strftime(clock))
    IN /\ pc = "backup"
       /\ IF collection_search_string \in DOMAIN db
          THEN /\ pc' = "prepare"
               /\ UNCHANGED <<db, made, outcome>>
          ELSE IF <<collection>> \in DOMAIN db
          THEN /\ db' = aggregate_out(db, collection, collection_search_string)
               /\ made' = Made(collection_search_string, TRUE)
               /\ pc' = "prepare"
               /\ UNCHANGED outcome
          ELSE /\ Raise("ValueError")
               /\ UNCHANGED <<db, made>>
       /\ ops' = Append(ops, "backup")
       /\ UNCHANGED <<clock, calls, fn, df, pre, again, goal, found>>
       /\ UNCHANGED ingest

\* Mutant: the backup of a collection that does not exist is passed over.
BackupIfPresent(collection, always) ==
    LET collection_search_string == BackupName(collection, strftime(clock))
        dropped == drop_collection(db, collection_search_string)
    IN /\ pc = "backup"
       /\ IF (always \/ collection_search_string \in DOMAIN db)
             /\ <<collection>> \in DOMAIN db
          THEN /\ db' = aggregate_out(dropped, collection, collection_search_string)
               /\ made' = Made(collection_search_string, TRUE)
          ELSE UNCHANGED <<db, made>>
       /\ pc' = "prepare"
       /\ ops' = Append(ops, "backup")
       /\ UNCHANGED <<clock, calls, fn, df, outcome, pre, again, goal, found>>
       /\ UNCHANGED ingest

\* The backup step of a sync function.  list_collection_names and today's
\* name; if the name is among the collections it is dropped; the aggregation
\* (get_collection raises ValueError for a collection that does not exist)
\* runs after the drop, and without one only where the code has it outside
\* the `if` (always).
Backup(collection, always) ==
    LET collection_search_string == BackupName(collection, strftime(clock))
        dropped == drop_collection(db, collection_search_string)
    IN /\ pc = "backup"
       /\ IF always \/ collection_search_string \in DOMAIN db
          THEN IF <<collection>> \in DOMAIN db
               THEN /\ db' = aggregate_out(dropped, collection, collection_search_string)
                    /\ made' = Made(collection_search_string, TRUE)
                    /\ pc' = "prepare"
                    /\ UNCHANGED outcome
               ELSE /\ db' = dropped
                    /\ made' = Made(collection_search_string, FALSE)
                    /\ Raise("ValueError")
          ELSE /\ pc' = "prepare"
               /\ UNCHANGED <<db, made, outcome>>
       /\ ops' = Append(ops, "backup")
       /\ UNCHANGED <<clock, calls, fn, df, pre, again, goal, found>>
       /\ UNCHANGED ingest

\* The delete operations prepared from the groups of the batch.
delete_ops(by) == SortedKeys(by, groupby(df))

\* Mutant: the bulk delete is skipped.
PrepareWithoutDelete(collection, by) ==
    /\ pc = "prepare"
    /\ IF <<collection>> \in DOMAIN db
       THEN pc' = "insert_many" /\ UNCHANGED outcome
       ELSE Raise("ValueError")
    /\ UNCHANGED <<db, clock, calls, fn, df, ops, pre, again, goal, found, made>>
    /\ UNCHANGED ingest

\* collection = db.get_*_collection() (ValueError for a collection that does
\* not exist), the loop over the groups, and `if delete_ops:`.
Prepare(collection, by) ==
    /\ pc = "prepare"
    /\ IF <<collection>> \in DOMAIN db
       THEN /\ pc' = IF delete_ops(by) # <<>> THEN "bulk_write" ELSE "insert_many"
            /\ UNCHANGED outcome
       ELSE Raise("ValueError")
    /\ UNCHANGED <<db, clock, calls, fn, df, ops, pre, again, goal, found, made>>
    /\ UNCHANGED ingest

\* collection.bulk_write(delete_ops)
BulkWrite(collection, by) ==
    /\ pc = "bulk_write"
    /\ db' = [db EXCEPT ![<<collection>>] =
                 bulk_write(@, delete_ops(by), Len(delete_ops(by)))]
    /\ ops' = Append(ops, "bulk_write")
    /\ pc' = "insert_many"
    /\ UNCHANGED <<clock, calls, fn, df, outcome, pre, again, goal, found, made>>
    /\ UNCHANGED ingest

\* collection.insert_many(documents), the last statement of the function.
InsertMany(collection) ==
    /\ pc = "insert_many"
    /\ pc' = "returned"
    /\ IF Encodable(df)
       THEN /\ db' = [db EXCEPT ![<<collection>>] = insert_many(@, df, Len(df))]
            /\ ops' = Append(ops, "insert_many")
            /\ outcome' = Returned("ok", "insert_many")
       ELSE /\ outcome' = Returned("InvalidDocument", "insert_many")
            /\ UNCHANGED <<db, ops>>
    /\ UNCHANGED <<clock, calls, fn, df, pre, again, goal, found, made>>
    /\ UNCHANGED ingest

(***************************************************************************)
(* update_launches_collection(launches_df, db)                             *)
(***************************************************************************)
update_launches_collection ==
    \E launches_df \in SeqsUpTo(LaunchRows, MaxBatch) :
        Call("update_launches_collection", launches_collection, LaunchRows,
             launches_df)

update_launches_collection_again ==
    CallAgain("update_launches_collection", launches_collection, LaunchRows)

\* backup_launches_collection(db): today's backup is dropped if it exists,
\* then the collection is written out to it, whether or not it existed.
backup_launches_collection ==
    /\ fn = "update_launches_collection"
    /\ Backup(launches_collection, TRUE)

update_launches_collection_group ==
    /\ fn = "update_launches_collection"
    /\ Prepare(launches_collection, <<"Date", "Aircraft">>)

update_launches_collection_bulk_write ==
    /\ fn = "update_launches_collection"
    /\ BulkWrite(launches_collection, <<"Date", "Aircraft">>)

update_launches_collection_insert_many ==
    /\ fn = "update_launches_collection"
    /\ InsertMany(launches_collection)

(***************************************************************************)
(* update_aircraft_info(aircraft_info, db)                                 *)
(***************************************************************************)
update_aircraft_info ==
    \E aircraft_info \in SeqsUpTo(AircraftRows, MaxBatch) :
        Call("update_aircraft_info", aircraft_info_collection, AircraftRows,
             aircraft_info)

update_aircraft_info_again ==
    CallAgain("update_aircraft_info", aircraft_info_collection, AircraftRows)

\* backup_aircraft_info_collection(db): the drop and the aggregation are both
\* inside `if collection_search_string in collections:`.
backup_aircraft_info_collection ==
    /\ fn = "update_aircraft_info"
    /\ Backup(aircraft_info_collection, FALSE)

update_aircraft_info_group ==
    /\ fn = "update_aircraft_info"
    /\ Prepare(aircraft_info_collection, <<"Aircraft", "Date">>)

update_aircraft_info_bulk_write ==
    /\ fn = "update_aircraft_info"
    /\ BulkWrite(aircraft_info_collection, <<"Aircraft", "Date">>)

update_aircraft_info_insert_many ==
    /\ fn = "update_aircraft_info"
    /\ InsertMany(aircraft_info_collection)

(***************************************************************************)
(* The store failing (a pymongo error), the caller, and the clock.         *)
(***************************************************************************)
TargetCollection == IF fn \in {"update_launches_collection", "launches_to_db"}
                    THEN launches_collection ELSE aircraft_info_collection

GroupColumns == IF fn = "update_launches_collection"
                THEN <<"Date", "Aircraft">> ELSE <<"Aircraft", "Date">>

\* A store operation of the backup raises: list_collection_names (nothing is
\* changed), or drop_collection or aggregate (today's backup may be gone).
\* The exception leaves the sync function, which handles none.
BackupError ==
    LET name == BackupName(TargetCollection, strftime(clock))
    IN /\ pc = "backup"
       /\ \E dropped \in BOOLEAN :
             /\ db' = IF dropped THEN drop_collection(db, name) ELSE db
             /\ made' = IF dropped THEN Made(name, FALSE) ELSE made
       /\ ops' = Append(ops, "backup")
       /\ Raise("StoreError")
       /\ UNCHANGED <<clock, calls, fn, df, pre, again, goal, found>>
       /\ UNCHANGED ingest

\* A read of the preparation (get_collection, count_documents) raises.
PrepareError ==
    /\ pc = "prepare"
    /\ Raise("StoreError")
    /\ UNCHANGED <<db, clock, calls, fn, df, ops, pre, again, goal, found, made>>
    /\ UNCHANGED ingest

\* bulk_write raises after n of its (ordered) operations were applied.
BulkWriteError ==
    /\ pc = "bulk_write"
    /\ \E n \in 0..Len(delete_ops(GroupColumns)) :
          db' = [db EXCEPT ![<<TargetCollection>>] =
                    bulk_write(@, delete_ops(GroupColumns), n)]
    /\ ops' = Append(ops, "bulk_write")
    /\ Raise("StoreError")
    /\ UNCHANGED <<clock, calls, fn, df, pre, again, goal, found, made>>
    /\ UNCHANGED ingest

\* insert_many raises after n of its (ordered) documents were stored.
InsertManyError ==
    /\ pc = "insert_many"
    /\ Encodable(df)
    /\ \E n \in 0..Len(df) :
          db' = [db EXCEPT ![<<TargetCollection>>] = insert_many(@, df, n)]
    /\ ops' = Append(ops, "insert_many")
    /\ Raise("StoreError")
    /\ UNCHANGED <<clock, calls, fn, df, pre, again, goal, found, made>>
    /\ UNCHANGED ingest

\* Time passes between two calls.
Tick ==
    /\ pc = "returned"
    /\ calls < MaxCalls
    /\ clock < MaxClock
    /\ clock' = clock + 1
    /\ UNCHANGED <<db, calls, fn, pc, df, ops, outcome, pre, again, goal, found, made>>
    /\ UNCHANGED ingest

Next ==
    \/ update_launches_collection
    \/ update_launches_collection_again
    \/ backup_launches_collection
    \/ update_launches_collection_group
    \/ update_launches_collection_bulk_write
    \/ update_launches_collection_insert_many
    \/ update_aircraft_info
    \/ update_aircraft_info_again
    \/ backup_aircraft_info_collection
    \/ update_aircraft_info_group
    \/ update_aircraft_info_bulk_write
    \/ update_aircraft_info_insert_many
    \/ BackupError
    \/ PrepareError
    \/ BulkWriteError
    \/ InsertManyError
    \/ Tick

Spec == Init /\ [][Next]_vars

(***************************************************************************)
(* launches_to_db(launches_df, db): the backup, then insert_many of every  *)
(* row.  The DataFrame is not tested for emptiness.                        *)
(***************************************************************************)
\* Entry of launches_to_db: the backup comes first, whatever the batch.
EnterToDb(batch) ==
    /\ calls < MaxCalls
    /\ calls' = calls + 1
    /\ fn' = "launches_to_db"
    /\ df' = batch
    /\ ops' = <<>>
    /\ pre' = Contents(<<launches_collection>>, LaunchRows)
    /\ pc' = "backup"
    /\ outcome' = Running
    /\ UNCHANGED <<db, clock, made>>
    /\ UNCHANGED ingest

launches_to_db ==
    /\ pc = "idle"
    /\ \E launches_df \in SeqsUpTo(LaunchRows, MaxBatch) :
          /\ EnterToDb(launches_df)
          /\ goal' = Replaced(Contents(<<launches_collection>>, LaunchRows), launches_df)
    /\ again' = NoCall
    /\ found' = Contents(<<launches_collection>>, LaunchRows)

\* The caller calls launches_to_db once more with the same batch.
launches_to_db_again ==
    /\ pc = "returned"
    /\ fn = "launches_to_db"
    /\ EnterToDb(df)
    /\ again' = outcome
    /\ UNCHANGED <<goal, found>>

\* backup_launches_collection(db=db)
launches_to_db_backup ==
    /\ fn = "launches_to_db"
    /\ Backup(launches_collection, TRUE)

\* master_dict = launches_df.to_dict('records'); db.get_launches_collection()
launches_to_db_get_collection ==
    /\ fn = "launches_to_db"
    /\ pc = "prepare"
    /\ IF <<launches_collection>> \in DOMAIN db
       THEN pc' = "insert_many" /\ UNCHANGED outcome
       ELSE Raise("ValueError")
    /\ UNCHANGED <<db, clock, calls, fn, df, ops, pre, again, goal, found, made>>
    /\ UNCHANGED ingest

\* Mutant: the rows stored under the keys of the batch are deleted first.
launches_to_db_replace ==
    /\ fn = "launches_to_db"
    /\ pc = "insert_many"
    /\ pc' = "returned"
    /\ IF df = <<>>
       THEN /\ outcome' = Returned("TypeError", "insert_many")
            /\ UNCHANGED <<db, ops>>
       ELSE IF ~Encodable(df)
       THEN /\ outcome' = Returned("InvalidDocument", "insert_many")
            /\ UNCHANGED <<db, ops>>
       ELSE /\ db' = [db EXCEPT ![<<launches_collection>>] =
                         insert_many(
                             bulk_write(@, delete_ops(<<"Date", "Aircraft">>),
                                        Len(delete_ops(<<"Date", "Aircraft">>))),
                             df, Len(df))]
            /\ ops' = Append(ops, "insert_many")
            /\ outcome' = Returned("ok", "insert_many")
    /\ UNCHANGED <<clock, calls, fn, df, pre, again, goal, found, made>>
    /\ UNCHANGED ingest

\* insert_many(master_dict), the last store operation: TypeError for an
\* empty list and InvalidDocument for a missing value, both before anything
\* is sent.
launches_to_db_insert_many ==
    /\ fn = "launches_to_db"
    /\ pc = "insert_many"
    /\ pc' = "returned"
    /\ IF df = <<>>
       THEN /\ outcome' = Returned("TypeError", "insert_many")
            /\ UNCHANGED <<db, ops>>
       ELSE IF ~Encodable(df)
       THEN /\ outcome' = Returned("InvalidDocument", "insert_many")
            /\ UNCHANGED <<db, ops>>
       ELSE /\ db' = [db EXCEPT ![<<launches_collection>>] = insert_many(@, df, Len(df))]
            /\ ops' = Append(ops, "insert_many")
            /\ outcome' = Returned("ok", "insert_many")
    /\ UNCHANGED <<clock, calls, fn, df, pre, again, goal, found, made>>
    /\ UNCHANGED ingest

\* insert_many raises after n of the documents of a batch were stored.
launches_to_db_insert_error ==
    /\ fn = "launches_to_db"
    /\ df # <<>>
    /\ InsertManyError

\* The launches collection may be missing and holds arbitrary documents.
InitToDb ==
    /\ \E l \in InitialContents(LaunchRows), present \in {Both, {aircraft_info_collection}} :
          db = Database(present, l, SomeContents(AircraftRows))
    /\ made = {}
    /\ NoSyncCall
    /\ log_sheet_df = <<>>
    /\ raised = NoSheet
    /\ NotSanitised
    /\ NotCollated
    /\ NotUploaded
    /\ RestIdle

NextToDb ==
    \/ launches_to_db
    \/ launches_to_db_again
    \/ launches_to_db_backup
    \/ launches_to_db_get_collection
    \/ launches_to_db_insert_many
    \/ launches_to_db_insert_error
    \/ BackupError
    \/ PrepareError
    \/ Tick

SpecToDb == InitToDb /\ [][NextToDb]_vars


(***************************************************************************)
(* Ingestion: validate_log_sheet.  A cell is <<>> when it is null (NaT,    *)
(* <NA>) and <<v>> when it holds v; Aircraft is a string, NA when null.     *)
(* Times of day are minutes after midnight.                                *)
(***************************************************************************)
MaxSheet == 2

Null == <<>>
isna(cell) == cell = Null

SheetRows ==
    [Date : {Null, <<1>>},
     TakeOffTime : {Null, <<630>>},
     LandingTime : {Null, <<600>>, <<630>>},
     FlightTime : {Null, <<240>>, <<241>>},
     Aircraft : {"0", "ZE123", NA}]

MAX_FLIGHT_TIME == 240

None == [raises |-> "nothing", message |-> "valid"]
ValueError(message) == [raises |-> "ValueError", message |-> message]
TypeError(message) == [raises |-> "TypeError", message |-> message]

\* Mutant: the first value of the column stands for its largest.
first_value(frame, column) == IF frame = <<>> THEN Null ELSE frame[1][column]

\* Series.max() of a nullable UInt16 column: nulls are skipped, and the
\* result is null when nothing is left.
max(frame, column) ==
    LET present == {frame[i][column][1] :
                        i \in {j \in DOMAIN frame : ~isna(frame[j][column])}}
    IN  IF present = {}
        THEN Null
        ELSE <<CHOOSE m \in present : \A o \in present : o <= m>>

\* cell > limit on a value that is not null.
Exceeds(cell, limit) == cell[1] > limit

\* The checks of validate_log_sheet in the order of the code.  The truth
\* value of a null comparison is ambiguous: `if` raises TypeError on it.
validate_log_sheet(frame) ==
    IF frame = <<>>
    THEN ValueError("Log sheet is empty.")
    ELSE IF \E i \in DOMAIN frame :
                \/ isna(frame[i].Date)
                \/ isna(frame[i].TakeOffTime)
                \/ isna(frame[i].LandingTime)
    THEN ValueError("Date or time columns contain NaT values.")
    ELSE IF \E i \in DOMAIN frame :
                frame[i].LandingTime[1] < frame[i].TakeOffTime[1]
    THEN ValueError("LandingTime is before TakeOffTime.")
    ELSE IF isna(max(frame, "FlightTime"))
    THEN TypeError("boolean value of NA is ambiguous")
    ELSE IF Exceeds(max(frame, "FlightTime"), MAX_FLIGHT_TIME)
    THEN ValueError("FlightTime column contains huge value.")
    ELSE IF \E i \in DOMAIN frame : frame[i].Aircraft = "0"
    THEN ValueError("Aircraft column has no aircraft.")
    ELSE None

\* extract_launches reads one more row of the sheet.
extract_launches ==
    /\ raised = NoSheet
    /\ Len(log_sheet_df) < MaxSheet
    /\ \E row \in SheetRows : log_sheet_df' = Append(log_sheet_df, row)
    /\ UNCHANGED raised
    /\ UNCHANGED <<sync, uploader, sanitiser, collator, rest>>

\* The sheet read is validated.
validate ==
    /\ raised = NoSheet
    /\ raised' = validate_log_sheet(log_sheet_df)
    /\ UNCHANGED log_sheet_df
    /\ UNCHANGED <<sync, uploader, sanitiser, collator, rest>>

InitValidate ==
    /\ db = Database(Both, NoDocuments(LaunchRows), NoDocuments(AircraftRows))
    /\ made = {}
    /\ NoSyncCall
    /\ log_sheet_df = <<>>
    /\ raised = NoSheet
    /\ NotSanitised
    /\ NotCollated
    /\ NotUploaded
    /\ RestIdle

NextValidate ==
    \/ extract_launches
    \/ validate

SpecValidate == InitValidate /\ [][NextValidate]_vars

(***************************************************************************)
(* Ingestion: sanitise_log_sheets.  A DataFrame is its set of columns and  *)
(* the sequence of its rows; a row maps "index" and every column to a      *)
(* cell.  A text is the sequence of its characters; a timestamp is a       *)
(* number of minutes, so that its time of day is the rest modulo a day.    *)
(***************************************************************************)
MaxLaunches == 2

\* The letters of the texts of the model, lower case and upper case.
Letters ==
    << <<"a", "A">>, <<"b", "B">>, <<"c", "C">>, <<"f", "F">>, <<"g", "G">>,
       <<"i", "I">>, <<"l", "L">>, <<"q", "Q">>, <<"s", "S">>, <<"t", "T">>,
       <<"u", "U">>, <<"w", "W">> >>

\* str.isupper() or str.islower() of one character.
Cased(ch) == \E i \in DOMAIN Letters : ch = Letters[i][1] \/ ch = Letters[i][2]
upper_char(ch) ==
    IF \E i \in DOMAIN Letters : ch = Letters[i][1]
    THEN Letters[CHOOSE i \in DOMAIN Letters : ch = Letters[i][1]][2]
    ELSE ch
lower_char(ch) ==
    IF \E i \in DOMAIN Letters : ch = Letters[i][2]
    THEN Letters[CHOOSE i \in DOMAIN Letters : ch = Letters[i][2]][1]
    ELSE ch

\* str.upper(), str.title() and str.strip() of a text.
upper(text) == [i \in DOMAIN text |-> upper_char(text[i])]
title(text) ==
    [i \in DOMAIN text |->
        IF i = 1 \/ ~Cased(text[i - 1])
        THEN upper_char(text[i])
        ELSE lower_char(text[i])]
strip(text) ==
    LET kept == {i \in DOMAIN text : text[i] # " "}
    IN  IF kept = {}
        THEN <<>>
        ELSE SubSeq(text,
                    CHOOSE i \in kept : \A j \in kept : i <= j,
                    CHOOSE i \in kept : \A j \in kept : j <= i)

\* Series.str.<method>(): a null cell stays null.
str_upper(cell) == IF isna(cell) THEN Null ELSE <<upper(cell[1])>>
str_title(cell) == IF isna(cell) THEN Null ELSE <<title(cell[1])>>
str_strip(cell) == IF isna(cell) THEN Null ELSE <<strip(cell[1])>>

\* Mutant: the alias is not applied.
loc_unchanged(cell, from, to) == cell

\* df.loc[df['Duty'] == from, 'Duty'] = to, on one cell: a null cell
\* compares as null, which the mask takes for False.
loc_replace(cell, from, to) == IF cell = <<from>> THEN <<to>> ELSE cell

\* Lines 243-256 on one Duty cell, in the order of the code.
Duty(cell) ==
    LET upper_case == str_upper(cell)
        gif == loc_replace(upper_case, <<"G", "I", "C">>, <<"G", "I", "F">>)
        gs == loc_replace(gif, <<"S", "G", "S">>, <<"G", "/", "S">>)
        agt == loc_replace(gs, <<"G", "W", "G", "T">>, <<"A", "G", "T">>)
        ut == loc_replace(agt, <<"U", "/", "T">>,
                          <<"S", "C", "T", " ", "U", "/", "T">>)
    IN  loc_replace(ut, <<"Q", "G", "I">>, <<"S", "C", "T", " ", "Q", "G", "I">>)

MinutesPerDay == 1440
\* Series.dt.time of a timestamp that is not null.
time(cell) == cell[1] % MinutesPerDay
\* pd.Timestamp('00:00:00').time()
Midnight == 0

\* Mutant: the rows are left in the order they came in.
unsorted(rows) == {rows}

\* sort_values(by="TakeOffTime", ascending=True, na_position="first"): the
\* null rows first, in their order; then the others by TakeOffTime.  The
\* default sort is not stable: rows of equal TakeOffTime come in any order.
sort_values(rows) ==
    LET n == Len(rows)
        Before(a, b) ==
            IF isna(rows[a]["TakeOffTime"])
            THEN isna(rows[b]["TakeOffTime"]) => a < b
            ELSE /\ ~isna(rows[b]["TakeOffTime"])
                 /\ rows[a]["TakeOffTime"][1] <= rows[b]["TakeOffTime"][1]
    IN  {[i \in 1..n |-> rows[f[i]]] :
            f \in {g \in [1..n -> 1..n] :
                    /\ \A i, j \in 1..n : i # j => g[i] # g[j]
                    /\ \A i, j \in 1..n : i < j => Before(g[i], g[j])}}

\* rename(columns={"2ndPilot": "SecondPilot"}): a missing column is ignored.
rename(frame, old, new) ==
    LET Renamed(c) == IF c = old THEN new ELSE c
    IN  DataFrame(
            {Renamed(c) : c \in frame.columns},
            [i \in DOMAIN frame.rows |->
                [c \in {Renamed(k) : k \in DOMAIN frame.rows[i]} |->
                    IF c = new /\ old \in DOMAIN frame.rows[i]
                    THEN frame.rows[i][old]
                    ELSE frame.rows[i][c]]])

Returns(frame) == [raises |-> "nothing", message |-> "", returns |-> frame]
Raises(exception, message) ==
    [raises |-> exception, message |-> message, returns |-> DataFrame({}, <<>>)]

\* Lines 235-240: the rows whose AircraftCommander is "0" go (a null
\* AircraftCommander compares as null, which the mask takes for False), then
\* the rows that took off at midnight; a null TakeOffTime is not midnight.
filter_placeholders(rows) ==
    LET commanded ==
            SelectSeq(rows, LAMBDA r :
                ~isna(r["AircraftCommander"]) /\ r["AircraftCommander"] # <<<<"0">>>>)
    IN  SelectSeq(commanded, LAMBDA r :
            isna(r["TakeOffTime"]) \/ time(r["TakeOffTime"]) # Midnight)

\* Lines 243-266 on one row.
clean(r) ==
    [r EXCEPT !["Duty"] = Duty(@),
              !["AircraftCommander"] = str_strip(str_title(@)),
              !["2ndPilot"] = str_strip(str_title(@))]

\* sanitise_log_sheets(log_sheet_df): the outcomes it can have.
sanitise_log_sheets(frame) ==
    IF "AircraftCommander" \notin frame.columns
    THEN {Raises("AttributeError", "AircraftCommander")}
    ELSE IF "TakeOffTime" \notin frame.columns
    THEN {Raises("KeyError", "TakeOffTime")}
    ELSE IF "Duty" \notin frame.columns
    THEN {Raises("KeyError", "Duty")}
    ELSE IF "2ndPilot" \notin frame.columns
    THEN {Raises("KeyError", "2ndPilot")}
    ELSE LET kept == filter_placeholders(frame.rows)
             cleaned == [i \in DOMAIN kept |-> clean(kept[i])]
         IN  {Returns(rename(DataFrame(frame.columns, sorted),
                             "2ndPilot", "SecondPilot")) :
                sorted \in sort_values(cleaned)}

\* The columns of the master log that sanitise_log_sheets touches.
LaunchColumns == {"AircraftCommander", "2ndPilot", "Duty", "TakeOffTime"}

\* The cells a row of the master log can hold.
Commanders == {Null, <<<<"0">>>>, <<<<"0", " ">>>>, <<<<"a", "l", " ", "b">>>>}
SecondPilots == {Null, <<<<" ", "a", "l">>>>}
Duties ==
    {Null, <<<<"g", "i", "c">>>>, <<<<"G", "I", "C">>>>, <<<<"u", "/", "t">>>>,
     <<<<"Q", "G", "I">>>>, <<<<"s", "g", "s">>>>, <<<<"g", "w", "g", "t">>>>,
     <<<<"a", "g", "t">>>>}
TakeOffTimes == {Null, <<1440>>, <<2040>>, <<2070>>}

\* pd.concat(..., ignore_index=True) gives the rows the index 0, 1, 2, ...
concat_row(frame, commander, second, duty, takeoff) ==
    DataFrame(frame.columns,
        Append(frame.rows,
            [c \in {"index"} \cup LaunchColumns |->
                CASE c = "index" -> Len(frame.rows)
                  [] c = "AircraftCommander" -> commander
                  [] c = "2ndPilot" -> second
                  [] c = "Duty" -> duty
                  [] c = "TakeOffTime" -> takeoff]))

\* One more launch comes into the master log.
master_log_row ==
    /\ collated_df = NotCalled
    /\ Len(log_sheet_df.rows) < MaxLaunches
    /\ \E commander \in Commanders, second \in SecondPilots,
          duty \in Duties, takeoff \in TakeOffTimes :
            log_sheet_df' = concat_row(log_sheet_df, commander, second, duty, takeoff)
    /\ UNCHANGED <<raised, sanitiser, collator, uploader, sync, rest>>

\* collated_df = sanitise_log_sheets(log_sheet_df)
sanitise ==
    /\ collated_df = NotCalled
    /\ collated_df' \in sanitise_log_sheets(log_sheet_df)
    /\ UNCHANGED <<sheet, twice_df, collator, uploader, sync, rest>>

\* sanitise_log_sheets(collated_df): the function is applied to its output.
sanitise_twice ==
    /\ collated_df.raises = "nothing"
    /\ twice_df = NotCalled
    /\ twice_df' \in sanitise_log_sheets(collated_df.returns)
    /\ UNCHANGED <<sheet, collated_df, collator, uploader, sync, rest>>

InitSanitise ==
    /\ db = Database(Both, NoDocuments(LaunchRows), NoDocuments(AircraftRows))
    /\ made = {}
    /\ NoSyncCall
    /\ log_sheet_df = DataFrame(LaunchColumns, <<>>)
    /\ raised = NoSheet
    /\ NotSanitised
    /\ NotCollated
    /\ NotUploaded
    /\ RestIdle

NextSanitise ==
    \/ master_log_row
    \/ sanitise
    \/ sanitise_twice

SpecSanitise == InitSanitise /\ [][NextSanitise]_vars

(***************************************************************************)
(* Ingestion: collate_log_sheets.  A file name is its prefix, its stem and *)
(* its suffix; a directory entry is a name, whether it is a regular file,  *)
(* and what the file holds: the rows of its FORMATTED sheet, or nothing    *)
(* that can be read.                                                        *)
(***************************************************************************)
MaxFiles == 3

\* "2965D_YYMMDD_ZEXXX.xlsx"
TemplateName == <<"2965D_", "YYMMDD_ZEXXX", ".xlsx">>
FileNames ==
    {<<"2965D_", "240101_ZE123", ".xlsx">>,
     <<"2965D_", "240102_ZE456", ".xlsx">>,
     TemplateName,
     <<"2965D_", "240103_ZE123", ".xls">>,
     <<"2965E_", "240101_ZE123", ".xlsx">>}

\* Every column of the FORMATTED sheet the model follows.
SheetColumns ==
    {"Date", "TakeOffTime", "LandingTime", "FlightTime", "Aircraft"} \cup LaunchColumns

\* A launch of the FORMATTED sheet: half an hour in the air.
launch(takeoff, aircraft, commander) ==
    [c \in SheetColumns |->
        CASE c = "Date" -> <<1>>
          [] c = "TakeOffTime" -> <<takeoff>>
          [] c = "LandingTime" -> <<takeoff + 30>>
          [] c = "FlightTime" -> <<30>>
          [] c = "Aircraft" -> aircraft
          [] c = "AircraftCommander" -> <<commander>>
          [] c = "2ndPilot" -> Null
          [] c = "Duty" -> <<<<"g", "i", "c">>>>]

\* What a file can hold: nothing readable, or a FORMATTED sheet.
Unreadable == << <<"not a workbook">> >>
FileContents ==
    {Unreadable,
     <<launch(2070, "ZE123", <<"a", "l", " ", "b">>)>>,
     <<launch(2070, "ZE123", <<"a", "l", " ", "b">>),
       launch(2040, "ZE456", <<"a", "l", " ", "b">>)>>,
     <<launch(2040, "ZE123", <<"a", "l", " ", "b">>),
       launch(2070, "0", <<"a", "l", " ", "b">>)>>,
     <<launch(2040, "ZE123", <<"0">>)>>}

DirEntries == [name : FileNames, is_file : BOOLEAN, holds : FileContents]

\* Mutant: every entry of the directory is listed.
glob_all(entries) == entries

\* dir_path.glob("2965D_*.xlsx"), kept where is_file().
glob(entries) ==
    SelectSeq(entries, LAMBDA e :
        e.name[1] = "2965D_" /\ e.name[3] = ".xlsx" /\ e.is_file)

\* The rows of a sheet under the index 0, 1, 2, ...
read_excel(rows) ==
    DataFrame(SheetColumns,
        [i \in DOMAIN rows |->
            [c \in {"index"} \cup SheetColumns |->
                IF c = "index" THEN i - 1 ELSE rows[i][c]]])

\* ingest_log_sheet(file_path): what it returns or raises.
ingest_log_sheet(file) ==
    IF ~file.is_file
    THEN Raises("FileNotFoundError", "File not found")
    ELSE IF file.name[3] # ".xlsx"
    THEN Raises("ValueError", "Invalid file extension. Expected .xlsx")
    ELSE IF file.holds = Unreadable
    THEN Raises("BadZipFile", "File is not a zip file")
    ELSE IF validate_log_sheet(file.holds) # None
    THEN Raises(validate_log_sheet(file.holds).raises,
                validate_log_sheet(file.holds).message)
    ELSE Returns(read_excel(file.holds))

\* pd.concat(frames, ignore_index=True)
RECURSIVE concat_rows(_)
concat_rows(frames) ==
    IF frames = <<>> THEN <<>>
    ELSE frames[1].rows \o concat_rows(Tail(frames))
concat(frames) ==
    LET rows == concat_rows(frames)
    IN  DataFrame(UNION {frames[i].columns : i \in DOMAIN frames},
            [i \in DOMAIN rows |-> [rows[i] EXCEPT !["index"] = i - 1]])

\* The directory gets one more entry, under a name of its own.
dir_entry ==
    /\ collate_pc = "idle"
    /\ Len(dir_contents) < MaxFiles
    /\ \E e \in DirEntries :
          /\ \A i \in DOMAIN dir_contents : dir_contents[i].name # e.name
          /\ dir_contents' = Append(dir_contents, e)
    /\ UNCHANGED <<log_sheet_list, warnings, attempted, collate_pc>>
    /\ UNCHANGED <<sheet, sanitiser, uploader, sync, rest>>

\* The files collate_log_sheets goes through.
log_sheet_files == glob(dir_contents)

\* collate_log_sheets(dir_path) up to its loop: no file, FileNotFoundError.
collate_log_sheets ==
    /\ collate_pc = "idle"
    /\ IF log_sheet_files = <<>>
       THEN /\ collated_df' = Raises("FileNotFoundError", "No log sheets found")
            /\ collate_pc' = "done"
       ELSE /\ collate_pc' = "loop"
            /\ UNCHANGED collated_df
    /\ UNCHANGED <<dir_contents, log_sheet_list, warnings, attempted>>
    /\ UNCHANGED <<sheet, twice_df, uploader, sync, rest>>

\* Mutant: the loop ends at the first file that fails.
collate_file_break ==
    /\ collate_pc = "loop"
    /\ Len(attempted) < Len(log_sheet_files)
    /\ LET file_path == log_sheet_files[Len(attempted) + 1]
           this_sheet_df == ingest_log_sheet(file_path)
       IN  /\ attempted' = IF this_sheet_df.raises = "nothing"
                            THEN Append(attempted, file_path.name)
                            ELSE [i \in DOMAIN log_sheet_files |-> log_sheet_files[i].name]
           /\ IF this_sheet_df.raises = "nothing"
              THEN /\ log_sheet_list' = Append(log_sheet_list, this_sheet_df.returns)
                   /\ UNCHANGED warnings
              ELSE /\ warnings' = IF file_path.name # TemplateName
                                  THEN Append(warnings, file_path.name)
                                  ELSE warnings
                   /\ UNCHANGED log_sheet_list
    /\ UNCHANGED <<dir_contents, collate_pc>>
    /\ UNCHANGED <<sheet, sanitiser, uploader, sync, rest>>

\* One turn of the loop: the next file is ingested; if that raises, a
\* warning naming the file is written unless the file is the template.
collate_file ==
    /\ collate_pc = "loop"
    /\ Len(attempted) < Len(log_sheet_files)
    /\ LET file_path == log_sheet_files[Len(attempted) + 1]
           this_sheet_df == ingest_log_sheet(file_path)
       IN  /\ attempted' = Append(attempted, file_path.name)
           /\ IF this_sheet_df.raises = "nothing"
              THEN /\ log_sheet_list' = Append(log_sheet_list, this_sheet_df.returns)
                   /\ UNCHANGED warnings
              ELSE /\ warnings' = IF file_path.name # TemplateName
                                  THEN Append(warnings, file_path.name)
                                  ELSE warnings
                   /\ UNCHANGED log_sheet_list
    /\ UNCHANGED <<dir_contents, collate_pc>>
    /\ UNCHANGED <<sheet, sanitiser, uploader, sync, rest>>

\* After the loop: pd.concat raises ValueError when no sheet was ingested.
collate_concat ==
    /\ collate_pc = "loop"
    /\ Len(attempted) = Len(log_sheet_files)
    /\ IF log_sheet_list = <<>>
       THEN /\ collated_df' = Raises("ValueError", "No objects to concatenate")
            /\ collate_pc' = "done"
            /\ UNCHANGED log_sheet_df
       ELSE /\ log_sheet_df' = concat(log_sheet_list)
            /\ collate_pc' = "sanitise"
            /\ UNCHANGED collated_df
    /\ UNCHANGED <<dir_contents, log_sheet_list, warnings, attempted>>
    /\ UNCHANGED <<raised, twice_df, uploader, sync, rest>>

\* collated_df = sanitise_log_sheets(log_sheet_df); return collated_df
collate_sanitise ==
    /\ collate_pc = "sanitise"
    /\ collated_df' \in sanitise_log_sheets(log_sheet_df)
    /\ collate_pc' = "done"
    /\ UNCHANGED <<dir_contents, log_sheet_list, warnings, attempted>>
    /\ UNCHANGED <<sheet, twice_df, uploader, sync, rest>>

InitCollate ==
    /\ db = Database(Both, NoDocuments(LaunchRows), NoDocuments(AircraftRows))
    /\ made = {}
    /\ NoSyncCall
    /\ log_sheet_df = DataFrame({}, <<>>)
    /\ raised = NoSheet
    /\ NotSanitised
    /\ NotCollated
    /\ NotUploaded
    /\ RestIdle

NextCollate ==
    \/ dir_entry
    \/ collate_log_sheets
    \/ collate_file
    \/ collate_concat
    \/ collate_sanitise

SpecCollate == InitCollate /\ [][NextCollate]_vars

(***************************************************************************)
(* Ingestion: ingest_log_sheet_from_upload.  An uploaded workbook has a    *)
(* name and, under each of the sheet names FORMATTED and _AIRCRAFT, no     *)
(* sheet (<<>>) or one (<<rows>>).  A raw Hours After cell is nothing, an   *)
(* elapsed time in days and seconds, or a text.                             *)
(***************************************************************************)
MaxAircraftRows == 2

AircraftColumns == {"Date", "Aircraft", "Launches After", "Hours After"}

NaT == [kind |-> "NaT", days |-> 0, seconds |-> 0]
Timedelta(days, seconds) == [kind |-> "timedelta", days |-> days, seconds |-> seconds]
Text == [kind |-> "str", days |-> 0, seconds |-> 0]

\* parse_hours_after(s): minutes, or null for what is no elapsed time.
parse_hours_after(s) ==
    IF s.kind = "NaT" THEN Null
    ELSE IF s.kind = "timedelta"
    THEN <<s.days * 24 * 60 + s.seconds \div 60>>
    ELSE Null

\* The cells a row of the _AIRCRAFT sheet can hold.
AircraftDates == {Null, <<1>>}
AircraftNames == {Null, <<<<"Z", "E", "1">>>>, <<<<"X", "1">>>>}
LaunchesAfter == {Null, <<100>>, <<100000001>>}
HoursAfter == {NaT, Timedelta(0, 9000), Timedelta(0, 0), Timedelta(4167, 0), Text}

\* One row of the _AIRCRAFT sheet as read_excel gives it: Hours After has
\* gone through the converter.
aircraft_row(date, aircraft, launches, hours) ==
    [c \in AircraftColumns |->
        CASE c = "Date" -> date
          [] c = "Aircraft" -> aircraft
          [] c = "Launches After" -> launches
          [] c = "Hours After" -> parse_hours_after(hours)]

\* sub in text
in_text(sub, text) ==
    \E i \in 1..(Len(text) - Len(sub) + 1) : SubSeq(text, i, i + Len(sub) - 1) = sub

max_minutes == 6000000

\* Mutant: the lower limit of Hours After is inclusive.
validate_aircraft_info_from_zero(rows) ==
    IF rows = <<>>
    THEN ValueError("Aircraft information is empty.")
    ELSE IF \E i \in DOMAIN rows : \E c \in AircraftColumns : isna(rows[i][c])
    THEN ValueError("Aircraft information contains empty values.")
    ELSE IF \E i \in DOMAIN rows :
                \/ rows[i]["Launches After"][1] < 0
                \/ rows[i]["Launches After"][1] > 100000000
    THEN ValueError("Difference in AC launches is too large.")
    ELSE IF \E i \in DOMAIN rows :
                \/ rows[i]["Hours After"][1] < 0
                \/ rows[i]["Hours After"][1] > max_minutes
    THEN ValueError("Difference in AC hours is too large.")
    ELSE None

\* The checks of validate_aircraft_info in the order of the code.
validate_aircraft_info(rows) ==
    IF rows = <<>>
    THEN ValueError("Aircraft information is empty.")
    ELSE IF \E i \in DOMAIN rows : \E c \in AircraftColumns : isna(rows[i][c])
    THEN ValueError("Aircraft information contains empty values.")
    ELSE IF ~\E i \in DOMAIN rows : in_text(<<"Z", "E">>, rows[i]["Aircraft"][1])
    THEN ValueError("Aircraft name does not contain 'ZE'.")
    ELSE IF \E i \in DOMAIN rows : isna(rows[i]["Date"])
    THEN ValueError("Date column contains NaT values.")
    ELSE IF \E i \in DOMAIN rows :
                \/ rows[i]["Launches After"][1] < 0
                \/ rows[i]["Launches After"][1] > 100000000
    THEN ValueError("Difference in AC launches is too large.")
    ELSE IF \E i \in DOMAIN rows :
                \/ rows[i]["Hours After"][1] <= 0
                \/ rows[i]["Hours After"][1] > max_minutes
    THEN ValueError("Difference in AC hours is too large.")
    ELSE None

\* The try block of extract_aircraft_info: read_excel of the sheet
\* _AIRCRAFT, then validate_aircraft_info.
read_aircraft_info(sheets) ==
    IF sheets = <<>>
    THEN Raises("ValueError", "Worksheet named '_AIRCRAFT' not found")
    ELSE IF validate_aircraft_info(sheets[1]) # None
    THEN Raises(validate_aircraft_info(sheets[1]).raises,
                validate_aircraft_info(sheets[1]).message)
    ELSE Returns(DataFrame(AircraftColumns, sheets[1]))

\* Mutant: the exception is not caught.
extract_aircraft_info_uncaught(sheets) == read_aircraft_info(sheets)

\* extract_aircraft_info(xls): any exception of the try block leaves an
\* empty DataFrame.
extract_aircraft_info(sheets) ==
    IF read_aircraft_info(sheets).raises # "nothing"
    THEN Returns(DataFrame({}, <<>>))
    ELSE read_aircraft_info(sheets)

Ingested(raw_df, aircraft_info) ==
    [raises |-> "nothing", message |-> "",
     raw_df |-> raw_df, aircraft_info |-> aircraft_info]
IngestRaises(exception, message) ==
    [raises |-> exception, message |-> message,
     raw_df |-> DataFrame({}, <<>>), aircraft_info |-> DataFrame({}, <<>>)]

\* ingest_log_sheet_from_upload(file): the pair it returns, or what it
\* raises; an exception of either extraction goes to the caller.
ingest_log_sheet_from_upload(file) ==
    IF file.name[3] # ".xlsx"
    THEN IngestRaises("ValueError", "Invalid file extension. Expected .xlsx")
    ELSE IF file.formatted = <<>>
    THEN IngestRaises("ValueError", "Worksheet named 'FORMATTED' not found")
    ELSE IF validate_log_sheet(file.formatted[1]) # None
    THEN IngestRaises(validate_log_sheet(file.formatted[1]).raises,
                      validate_log_sheet(file.formatted[1]).message)
    ELSE IF extract_aircraft_info(file.aircraft).raises # "nothing"
    THEN IngestRaises(extract_aircraft_info(file.aircraft).raises,
                      extract_aircraft_info(file.aircraft).message)
    ELSE Ingested(read_excel(file.formatted[1]),
                  extract_aircraft_info(file.aircraft).returns)

\* The FORMATTED sheets of the uploads: none, one that validates, one that
\* does not.
FormattedSheets ==
    {<<>>,
     << <<launch(2070, "ZE123", <<"a", "l", " ", "b">>)>> >>,
     << <<launch(2070, "0", <<"a", "l", " ", "b">>)>> >>}

\* A workbook is uploaded, with or without a sheet named _AIRCRAFT.
upload_workbook ==
    /\ upload = NoWorkbook
    /\ \E name \in {<<"2965D_", "240101_ZE123", ".xlsx">>, <<"2965D_", "240101_ZE123", ".txt">>},
          formatted \in FormattedSheets, aircraft \in {<<>>, << <<>> >>} :
            upload' = [name |-> name, formatted |-> formatted, aircraft |-> aircraft]
    /\ UNCHANGED ingested
    /\ UNCHANGED <<sheet, sanitiser, collator, sync, rest>>

\* The _AIRCRAFT sheet of the workbook has one more row.
upload_aircraft_row ==
    /\ upload # NoWorkbook
    /\ ingested = NotIngested
    /\ upload.aircraft # <<>>
    /\ Len(upload.aircraft[1]) < MaxAircraftRows
    /\ \E date \in AircraftDates, aircraft \in AircraftNames,
          launches \in LaunchesAfter, hours \in HoursAfter :
            upload' = [upload EXCEPT !.aircraft =
                <<Append(@[1], aircraft_row(date, aircraft, launches, hours))>>]
    /\ UNCHANGED ingested
    /\ UNCHANGED <<sheet, sanitiser, collator, sync, rest>>

\* sheet_df, aircraft_info = ingest_log_sheet_from_upload(file)
ingest_upload ==
    /\ upload # NoWorkbook
    /\ ingested = NotIngested
    /\ ingested' = ingest_log_sheet_from_upload(upload)
    /\ UNCHANGED upload
    /\ UNCHANGED <<sheet, sanitiser, collator, sync, rest>>

InitUpload ==
    /\ db = Database(Both, NoDocuments(LaunchRows), NoDocuments(AircraftRows))
    /\ made = {}
    /\ NoSyncCall
    /\ log_sheet_df = <<>>
    /\ raised = NoSheet
    /\ NotSanitised
    /\ NotCollated
    /\ NotUploaded
    /\ RestIdle

NextUpload ==
    \/ upload_workbook
    \/ upload_aircraft_row
    \/ ingest_upload

SpecUpload == InitUpload /\ [][NextUpload]_vars

(***************************************************************************)
(* Ingestion: validate_aircraft_info called on a DataFrame of aircraft     *)
(* information, whatever its cells hold.                                   *)
(***************************************************************************)
MaxInfoRows == 2

\* The cells of a row of aircraft information; Hours After in minutes.
InfoDates == {Null, <<1>>}
InfoNames == {Null, <<<<"Z", "E", "1">>>>, <<<<"X", "1">>>>}
InfoLaunches == {Null, <<-1>>, <<0>>, <<100000000>>, <<100000001>>}
InfoHours == {Null, <<-1>>, <<0>>, <<1>>, <<6000000>>, <<6000001>>}

info_row(date, aircraft, launches, hours) ==
    [c \in AircraftColumns |->
        CASE c = "Date" -> date
          [] c = "Aircraft" -> aircraft
          [] c = "Launches After" -> launches
          [] c = "Hours After" -> hours]

\* The DataFrame of aircraft information has one more row.
aircraft_info_row ==
    /\ aircraft_raised = NoSheet
    /\ Len(aircraft_info_df) < MaxInfoRows
    /\ \E date \in InfoDates, aircraft \in InfoNames,
          launches \in InfoLaunches, hours \in InfoHours :
            aircraft_info_df' =
                Append(aircraft_info_df, info_row(date, aircraft, launches, hours))
    /\ UNCHANGED aircraft_raised
    /\ UNCHANGED <<sync, sheet, sanitiser, collator, uploader, concurrent, authentication, session>>

\* validate_aircraft_info(aircraft_info_df)
validate_aircraft ==
    /\ aircraft_raised = NoSheet
    /\ aircraft_raised' = validate_aircraft_info(aircraft_info_df)
    /\ UNCHANGED aircraft_info_df
    /\ UNCHANGED <<sync, sheet, sanitiser, collator, uploader, concurrent, authentication, session>>

InitAircraft ==
    /\ db = Database(Both, NoDocuments(LaunchRows), NoDocuments(AircraftRows))
    /\ made = {}
    /\ NoSyncCall
    /\ log_sheet_df = <<>>
    /\ raised = NoSheet
    /\ NotSanitised
    /\ NotCollated
    /\ NotUploaded
    /\ RestIdle

NextAircraft ==
    \/ aircraft_info_row
    \/ validate_aircraft

SpecAircraft == InitAircraft /\ [][NextAircraft]_vars

(***************************************************************************)
(* Two calls of update_launches_collection running at once on one          *)
(* database (two dashboard sessions, or the dashboard and the command      *)
(* line).  The store applies one operation at a time; nothing in the code  *)
(* orders the operations of one call against those of the other.           *)
(***************************************************************************)
\* Longest batch of a concurrent call.
MaxWriterBatch == 2

\* The batch of a concurrent call: not empty, and bson can encode it.
WriterBatches == SeqsUpTo(Storable(LaunchRows), MaxWriterBatch) \ {<<>>}

\* The delete operations call w prepared from the groups of its batch.
writer_delete_ops(w) == SortedKeys(<<"Date", "Aircraft">>, groupby(writers[w].launches_df))

\* update_launches_collection(launches_df, db) is called: the batch is not
\* empty, the backup comes next.
writer_call(w) ==
    /\ writers[w].pc = "idle"
    /\ \E launches_df \in WriterBatches :
          writers' = [writers EXCEPT ![w] = [pc |-> "backup", launches_df |-> launches_df]]
    /\ UNCHANGED <<db, made, schedule>>
    /\ UNCHANGED <<clock, calls, fn, pc, df, ops, outcome, pre, again, goal, found>>
    /\ UNCHANGED <<sheet, sanitiser, collator, uploader, utilisation, authentication, session>>

\* backup_launches_collection(db) of call w, then get_launches_collection
\* and the preparation of the delete operations.
writer_backup(w) ==
    LET collection_search_string == BackupName(launches_collection, strftime(clock))
    IN /\ writers[w].pc = "backup"
       /\ db' = aggregate_out(drop_collection(db, collection_search_string),
                              launches_collection, collection_search_string)
       /\ made' = Made(collection_search_string, TRUE)
       /\ writers' = [writers EXCEPT ![w].pc = "bulk_write"]
       /\ UNCHANGED schedule
       /\ UNCHANGED <<clock, calls, fn, pc, df, ops, outcome, pre, again, goal, found>>
       /\ UNCHANGED <<sheet, sanitiser, collator, uploader, utilisation, authentication, session>>

\* collection.bulk_write(delete_ops) of call w
writer_bulk_write(w) ==
    /\ writers[w].pc = "bulk_write"
    /\ db' = [db EXCEPT ![<<launches_collection>>] =
                 bulk_write(@, writer_delete_ops(w), Len(writer_delete_ops(w)))]
    /\ schedule' = Append(schedule, <<w, "bulk_write">>)
    /\ writers' = [writers EXCEPT ![w].pc = "insert_many"]
    /\ UNCHANGED made
    /\ UNCHANGED <<clock, calls, fn, pc, df, ops, outcome, pre, again, goal, found>>
    /\ UNCHANGED <<sheet, sanitiser, collator, uploader, utilisation, authentication, session>>

\* collection.insert_many(documents) of call w, its last statement
writer_insert_many(w) ==
    /\ writers[w].pc = "insert_many"
    /\ db' = [db EXCEPT ![<<launches_collection>>] =
                 insert_many(@, writers[w].launches_df, Len(writers[w].launches_df))]
    /\ schedule' = Append(schedule, <<w, "insert_many">>)
    /\ writers' = [writers EXCEPT ![w].pc = "returned"]
    /\ UNCHANGED made
    /\ UNCHANGED <<clock, calls, fn, pc, df, ops, outcome, pre, again, goal, found>>
    /\ UNCHANGED <<sheet, sanitiser, collator, uploader, utilisation, authentication, session>>

\* The launches collection holds arbitrary documents when the calls begin.
InitConcurrent ==
    /\ \E l \in InitialContents(LaunchRows) :
          db = Database(Both, l, NoDocuments(AircraftRows))
    /\ made = {}
    /\ NoSyncCall
    /\ log_sheet_df = <<>>
    /\ raised = NoSheet
    /\ NotSanitised
    /\ NotCollated
    /\ NotUploaded
    /\ RestIdle

NextConcurrent ==
    \E w \in Writers :
        \/ writer_call(w)
        \/ writer_backup(w)
        \/ writer_bulk_write(w)
        \/ writer_insert_many(w)

SpecConcurrent == InitConcurrent /\ [][NextConcurrent]_vars

(***************************************************************************)
(* dashboard/auth.py: AuthConfig._login.  The auth collection holds one    *)
(* document per squadron (vgs), with its password and the squadrons it may  *)
(* see.                                                                     *)
(***************************************************************************)
\* Number of _login calls on one AuthConfig object.
MaxLogins == 3

\* The documents of the auth collection.
AuthDocuments ==
    {[vgs |-> "661VGS", password |-> "pw661", allowed_vgs |-> {"661VGS"}],
     [vgs |-> "662VGS", password |-> "pw662", allowed_vgs |-> {"661VGS", "662VGS"}]}

\* What a caller can enter.
EnteredVgs == {"661VGS", "662VGS", "663VGS"}
EnteredPasswords == {"pw661", "pw662", "guess"}

\* collection.find_one({"vgs": vgs}): the set of the documents found (none
\* or one).
find_one(vgs) == {d \in AuthDocuments : d.vgs = vgs}

\* _connect(): a new client is made and pinged; connected is set when the
\* ping answers ok and is left as it was when it does not or raises.
connect(config, ping) ==
    IF ping = "ok" THEN [config EXCEPT !.connected = TRUE] ELSE config

\* _login(vgs, password) on a server that answered the ping (or did not):
\* the fields after the call.
logged_in(config, vgs, password, ping) ==
    LET set == [config EXCEPT !.vgs = vgs, !.password = password]
        connected == connect(set, ping)
        document == find_one(vgs)
    IN IF connected.connected
          /\ \E d \in document : d.password = password
       THEN [connected EXCEPT !.authenticated = TRUE,
                              !.allowed_vgs = (CHOOSE d \in document : TRUE).allowed_vgs]
       ELSE connected

\* self._login(vgs, password).  With connected left True by an earlier call
\* and a server that does not answer, find_one raises.
_login ==
    /\ login.calls < MaxLogins
    /\ \E vgs \in EnteredVgs, password \in EnteredPasswords,
          ping \in {"ok", "not ok", "raises"} :
            IF ping # "ok" /\ auth_config.connected
            THEN /\ auth_config' = [auth_config EXCEPT !.vgs = vgs, !.password = password]
                 /\ login' = [calls |-> login.calls + 1, returns |-> "raises"]
            ELSE /\ auth_config' = logged_in(auth_config, vgs, password, ping)
                 /\ login' = [calls |-> login.calls + 1,
                              returns |-> IF auth_config'.authenticated
                                          THEN "True" ELSE "False"]
    /\ UNCHANGED <<sync, sheet, sanitiser, collator, uploader, utilisation, concurrent, session>>

InitAuth ==
    /\ db = Database(Both, NoDocuments(LaunchRows), NoDocuments(AircraftRows))
    /\ made = {}
    /\ NoSyncCall
    /\ log_sheet_df = <<>>
    /\ raised = NoSheet
    /\ NotSanitised
    /\ NotCollated
    /\ NotUploaded
    /\ RestIdle

NextAuth == _login

SpecAuth == InitAuth /\ [][NextAuth]_vars

(***************************************************************************)
(* dashboard/utils.py: upload_log_sheets(files).  An uploaded file is a     *)
(* workbook with a size.  What the function shows is the sequence of its    *)
(* st.warning, st.error and st.toast messages; the status of the "Uploading *)
(* to Database..." container is the sequence of the states it was given.    *)
(***************************************************************************)
\* Most files of one upload.
MaxUploads == 2

MAX_FILE_SIZE == 1048576

\* One row of an _AIRCRAFT sheet that validates.
GoodAircraftRow == aircraft_row(<<1>>, <<<<"Z", "E", "1">>>>, <<100>>, Timedelta(0, 9000))

Workbook(stem, suffix, formatted, aircraft, size) ==
    [name |-> <<"2965D_", stem, suffix>>, formatted |-> formatted,
     aircraft |-> aircraft, size |-> size]

\* The files a user can upload: a log sheet with and without aircraft
\* information, one whose only launch is a placeholder, one that does not
\* validate, one that is no .xlsx file, the template, and one too large.
UploadedFiles ==
    LET flown == << <<launch(2070, "ZE123", <<"a", "l", " ", "b">>)>> >>
        placeholder == << <<launch(2040, "ZE123", <<"0">>)>> >>
        invalid == << <<launch(2070, "0", <<"a", "l", " ", "b">>)>> >>
        info == << <<GoodAircraftRow>> >>
    IN {Workbook("240101_ZE123", ".xlsx", flown, info, 1),
        Workbook("240102_ZE123", ".xlsx", flown, <<>>, 1),
        Workbook("240103_ZE123", ".xlsx", placeholder, info, 1),
        Workbook("240104_ZE123", ".xlsx", invalid, info, 1),
        Workbook("240105_ZE123", ".xls", flown, info, 1),
        Workbook("YYMMDD_ZEXXX", ".xlsx", flown, info, 1),
        Workbook("240106_ZE123", ".xlsx", flown, info, MAX_FILE_SIZE + 1)}

\* validate_log_sheet(file) of the dashboard: the warning it shows, "" when
\* the checks pass.
validate_upload(file) ==
    IF file.name[3] # ".xlsx" THEN "Invalid file"
    ELSE IF file.name = TemplateName THEN "Template log sheet detected."
    ELSE IF file.size > MAX_FILE_SIZE THEN "File size too large"
    ELSE ""

\* pd.concat(aircraft_info_list, ignore_index=True)
concat_info(frames) ==
    DataFrame(UNION {frames[i].columns : i \in DOMAIN frames}, concat_rows(frames))

\* upload_log_sheets(files) is called.
upload_log_sheets ==
    /\ session.pc = "idle"
    /\ \E files \in SeqsUpTo(UploadedFiles, MaxUploads) :
          session' = [session EXCEPT !.pc = "loop", !.files = files]
    /\ UNCHANGED <<sync, sheet, sanitiser, collator, uploader, utilisation, concurrent, authentication>>

\* One turn of the loop over the files: a file that fails the checks is
\* passed over with its warning; one that ingest_log_sheet_from_upload
\* raises on is passed over with "Log sheet invalid".
upload_file ==
    /\ session.pc = "loop"
    /\ session.index < Len(session.files)
    /\ LET file == session.files[session.index + 1]
           read == ingest_log_sheet_from_upload(file)
       IN  session' =
               IF validate_upload(file) # ""
               THEN [session EXCEPT !.index = @ + 1,
                                    !.shown = Append(@, validate_upload(file))]
               ELSE IF read.raises # "nothing"
               THEN [session EXCEPT !.index = @ + 1,
                                    !.shown = Append(@, "Log sheet invalid")]
               ELSE [session EXCEPT !.index = @ + 1,
                                    !.log_sheet_list = Append(@, read.raw_df),
                                    !.aircraft_info_list = Append(@, read.aircraft_info)]
    /\ UNCHANGED <<sync, sheet, sanitiser, collator, uploader, utilisation, concurrent, authentication>>

\* After the loop the status container opens and the two lists are
\* concatenated; pd.concat raises ValueError on an empty list, outside any
\* try.
upload_concat ==
    /\ session.pc = "loop"
    /\ session.index = Len(session.files)
    /\ session' =
          IF session.log_sheet_list = <<>>
          THEN [session EXCEPT !.pc = "done", !.raises = "ValueError"]
          ELSE [session EXCEPT !.pc = "sanitise",
                               !.log_sheet_df = concat(session.log_sheet_list),
                               !.aircraft_info_df = concat_info(session.aircraft_info_list)]
    /\ UNCHANGED <<sync, sheet, sanitiser, collator, uploader, utilisation, concurrent, authentication>>

\* collated_df = sanitise_log_sheets(log_sheet_df), outside any try.
upload_sanitise ==
    /\ session.pc = "sanitise"
    /\ \E result \in sanitise_log_sheets(session.log_sheet_df) :
          session' =
              IF result.raises # "nothing"
              THEN [session EXCEPT !.pc = "done", !.raises = result.raises]
              ELSE [session EXCEPT !.pc = "update_launches_collection",
                                   !.collated_df = result.returns]
    /\ UNCHANGED <<sync, sheet, sanitiser, collator, uploader, utilisation, concurrent, authentication>>

\* How a call of a sync function can end: it returns on an empty batch; on
\* any other it returns, or a step of it raises.
Ends(batch) == IF batch.rows = <<>> THEN {"returns"} ELSE {"returns", "raises"}

\* The except block of upload_log_sheets.
failed_upload(called) ==
    [session EXCEPT !.pc = "done",
                    !.called = Append(@, <<called, "raises">>),
                    !.shown = Append(@, "Failed to upload log sheets."),
                    !.status = Append(@, "error")]

\* Mutant: the error of the launches sync is shown and the try block goes on.
upload_update_launches_go_on ==
    /\ session.pc = "update_launches_collection"
    /\ \E end \in Ends(session.collated_df) :
          session' =
              IF end = "raises"
              THEN [failed_upload("update_launches_collection")
                        EXCEPT !.pc = "update_aircraft_info"]
              ELSE [session EXCEPT !.pc = "update_aircraft_info",
                                   !.called = Append(@, <<"update_launches_collection", "returns">>)]
    /\ UNCHANGED <<sync, sheet, sanitiser, collator, uploader, utilisation, concurrent, authentication>>

\* The try block: update_launches_collection(launches_df=collated_df, ...).
upload_update_launches ==
    /\ session.pc = "update_launches_collection"
    /\ \E end \in Ends(session.collated_df) :
          session' =
              IF end = "raises"
              THEN failed_upload("update_launches_collection")
              ELSE [session EXCEPT !.pc = "update_aircraft_info",
                                   !.called = Append(@, <<"update_launches_collection", "returns">>)]
    /\ UNCHANGED <<sync, sheet, sanitiser, collator, uploader, utilisation, concurrent, authentication>>

\* The try block goes on: update_aircraft_info(aircraft_info=aircraft_info_df,
\* ...), then the status "complete" and the toast.
upload_update_aircraft ==
    /\ session.pc = "update_aircraft_info"
    /\ \E end \in Ends(session.aircraft_info_df) :
          session' =
              IF end = "raises"
              THEN failed_upload("update_aircraft_info")
              ELSE [session EXCEPT !.pc = "done",
                                   !.called = Append(@, <<"update_aircraft_info", "returns">>),
                                   !.shown = Append(@, "Log Sheets Uploaded!"),
                                   !.status = Append(@, "complete")]
    /\ UNCHANGED <<sync, sheet, sanitiser, collator, uploader, utilisation, concurrent, authentication>>

InitDashboard ==
    /\ db = Database(Both, NoDocuments(LaunchRows), NoDocuments(AircraftRows))
    /\ made = {}
    /\ NoSyncCall
    /\ log_sheet_df = <<>>
    /\ raised = NoSheet
    /\ NotSanitised
    /\ NotCollated
    /\ NotUploaded
    /\ RestIdle

NextDashboard ==
    \/ upload_log_sheets
    \/ upload_file
    \/ upload_concat
    \/ upload_sanitise
    \/ upload_update_launches
    \/ upload_update_aircraft

SpecDashboard == InitDashboard /\ [][NextDashboard]_vars


(***************************************************************************)
(* Properties of the synchronisation.                                      *)
(***************************************************************************)
Launches == Contents(<<launches_collection>>, LaunchRows)
AircraftInfo == Contents(<<aircraft_info_collection>>, AircraftRows)

\* Number of rows of the batch equal to r.
CountIn(batch, r) == Cardinality({i \in DOMAIN batch : batch[i] = r})

\* The composite keys that occur in the batch.
KeysIn(batch) == {KeyOf(batch[i]) : i \in DOMAIN batch}

Issued(op) == \E i \in DOMAIN ops : ops[i] = op

\* update_launches_collection returned without error on a non-empty batch.
LaunchesSynced ==
    /\ pc = "returned"
    /\ fn = "update_launches_collection"
    /\ outcome.status = "ok"
    /\ df # <<>>

\* C1: after update_launches_collection completes without error on a
\* non-empty batch, the stored records of every key that occurs in the batch
\* are exactly the batch's rows of that key, each as often as the batch has it.
C1_KeyScopedReplace ==
    LaunchesSynced =>
        \A r \in LaunchRows :
            KeyOf(r) \in KeysIn(df) => Launches[r] = CountIn(df, r)

\* A sync replaced a record stored under a key of the batch by a batch of two
\* rows of that key.
C1_Witness ==
    /\ LaunchesSynced
    /\ Len(df) = 2
    /\ KeyOf(df[1]) = KeyOf(df[2])
    /\ \E r \in LaunchRows :
          pre[r] > 0 /\ KeyOf(r) = KeyOf(df[1]) /\ CountIn(df, r) = 0

\* C2: no step of update_launches_collection or update_aircraft_info changes
\* the number of stored copies of a record of its collection whose key does
\* not occur in the batch of the call (and the collection stays in existence).
C2_OtherKeysUntouched ==
    [][/\ \A r \in LaunchRows :
             fn' = "update_launches_collection" /\ KeyOf(r) \notin KeysIn(df')
                 => ContentsIn(db', <<launches_collection>>, LaunchRows)[r]
                        = Launches[r]
       /\ \A r \in AircraftRows :
             fn' = "update_aircraft_info" /\ KeyOf(r) \notin KeysIn(df')
                 => ContentsIn(db', <<aircraft_info_collection>>, AircraftRows)[r]
                        = AircraftInfo[r]
       /\ \A c \in Both : <<c>> \in DOMAIN db => <<c>> \in DOMAIN db']_vars

\* A sync of one aircraft's rows of a date has returned, and a record of the
\* other aircraft on the same date is still stored.
C2_Witness ==
    /\ LaunchesSynced
    /\ \E r \in LaunchRows :
          /\ pre[r] > 0
          /\ Launches[r] = pre[r]
          /\ KeyOf(r) \notin KeysIn(df)
          /\ \E i \in DOMAIN df : df[i].Date = r.Date

\* C3: when update_launches_collection has completed without error twice in
\* succession with the same batch, the launches collection holds what it held
\* after the first of the two calls.
C3_SyncIdempotent ==
    LaunchesSynced /\ again.status = "ok" => Launches = pre

\* The second of two successful calls with a batch holding the same row twice.
C3_Witness ==
    /\ LaunchesSynced
    /\ again.status = "ok"
    /\ Len(df) = 2
    /\ df[1] = df[2]
    /\ Launches[df[1]] = 2

\* C4: a call of update_launches_collection that ended in its backup step
\* ended with an error, issued no bulk delete and no insert, and left the
\* launches collection as the call found it.
C4_BackupFailureAborts ==
    fn = "update_launches_collection" /\ outcome.at = "backup" =>
        /\ pc = "returned"
        /\ outcome.status \in {"StoreError", "ValueError"}
        /\ ~Issued("bulk_write")
        /\ ~Issued("insert_many")
        /\ Launches = pre

\* The backup of a collection holding a record of one of the batch's keys
\* failed.
C4_Witness ==
    /\ fn = "update_launches_collection"
    /\ outcome = Returned("StoreError", "backup")
    /\ \E r \in LaunchRows : Launches[r] > 0 /\ KeyOf(r) \in KeysIn(df)

\* C5: when update_launches_collection is about to delete, the collection
\* named for today's date exists and holds exactly the records the launches
\* collection held when the call began.
C5_BackupBeforeDelete ==
    fn = "update_launches_collection" /\ pc = "bulk_write" =>
        LET name == BackupName(launches_collection, clock \div TicksPerDay)
        IN name \in DOMAIN db /\ db[name] = pre

\* The second call of a day is about to delete: today's backup, which held
\* what the first call found, now holds what the second call found.
C5_Witness ==
    /\ fn = "update_launches_collection"
    /\ pc = "bulk_write"
    /\ again.status = "ok"
    /\ clock \div TicksPerDay = 0
    /\ \E r \in LaunchRows : pre[r] = 2 /\ CountIn(df, r) = 2
    /\ db[BackupName(launches_collection, 0)] = pre

\* C6: when update_aircraft_info is about to delete or to insert, the
\* collection named for today's date exists and holds exactly the records the
\* aircraft collection held when the call began.
C6_AircraftBackupBeforeWrite ==
    fn = "update_aircraft_info" /\ pc \in {"bulk_write", "insert_many"} =>
        LET name == BackupName(aircraft_info_collection, clock \div TicksPerDay)
        IN name \in DOMAIN db /\ db[name] = pre

\* C7: of each synced collection the database holds at most one backup per
\* calendar day, and the backup written on a day is named by the collection
\* and that day.
C7_OneBackupPerDay ==
    /\ \A m \in made : m.name \in DOMAIN db
    /\ \A c \in Both : \A day \in 0..(MaxClock \div TicksPerDay) :
          LET ofDay == {m \in made : m.name[1] = c /\ m.day = day}
          IN /\ Cardinality(ofDay) <= 1
             /\ \A m \in ofDay : m.name = <<c, day>>

\* Two calls wrote the backup of the launches collection on the same day, at
\* different instants.
C7_Witness ==
    /\ LaunchesSynced
    /\ again.status = "ok"
    /\ clock = 1
    /\ [name |-> <<launches_collection, 0>>, day |-> 0] \in made

\* C8: when update_launches_collection completes without error after a call
\* with the same batch failed in insert_many, the launches collection holds
\* what one uninterrupted successful call would have made of the contents the
\* failed call found: a key-scoped replace by the batch.
C8_RetryAfterInsertFailure ==
    LaunchesSynced /\ again = Returned("StoreError", "insert_many")
        => Launches = goal

\* The retry of a call whose insert failed with no row stored: it began with
\* no record under the batch's keys, where the failed call had found one.
C8_Witness ==
    /\ LaunchesSynced
    /\ again = Returned("StoreError", "insert_many")
    /\ \A r \in LaunchRows : KeyOf(r) \in KeysIn(df) => pre[r] = 0
    /\ \E r \in LaunchRows : KeyOf(r) \notin KeysIn(df) /\ pre[r] > 0
    /\ Launches # pre

\* C9: the steps of a call reach the store in the order backup, bulk_write,
\* insert_many, each at most once; a call that returned without error on a
\* non-empty batch issued each exactly once; and when insert_many is about to
\* be issued no record of a key of the batch's groups is stored.
C9_StepsInOrder ==
    /\ fn # "none" =>
          \E n \in 0..3 : ops = SubSeq(<<"backup", "bulk_write", "insert_many">>, 1, n)
    /\ pc = "returned" /\ outcome.status = "ok" /\ df # <<>> =>
          ops = <<"backup", "bulk_write", "insert_many">>
    /\ pc = "insert_many" =>
          \A r \in DOMAIN db[<<TargetCollection>>] :
              KeyOf(r) \in groupby(df) => db[<<TargetCollection>>][r] = 0

\* update_aircraft_info returned without error after deleting the stored
\* record of the batch's key and inserting the batch.
C9_Witness ==
    /\ pc = "returned"
    /\ fn = "update_aircraft_info"
    /\ outcome.status = "ok"
    /\ ops = <<"backup", "bulk_write", "insert_many">>
    /\ \E r \in AircraftRows : pre[r] > 0 /\ KeyOf(r) \in KeysIn(df)

(***************************************************************************)
(* Properties of the ingestion.                                            *)
(***************************************************************************)
\* A row that one of the validator's conditions names.
Offending(row) ==
    \/ isna(row.Date)
    \/ isna(row.TakeOffTime)
    \/ isna(row.LandingTime)
    \/ (~isna(row.LandingTime) /\ ~isna(row.TakeOffTime)
            /\ row.LandingTime[1] < row.TakeOffTime[1])
    \/ (~isna(row.FlightTime) /\ row.FlightTime[1] > MAX_FLIGHT_TIME)
    \/ row.Aircraft = "0"

\* C10: validate_log_sheet raises ValueError exactly when the batch is empty
\* or holds a row with a null Date, TakeOffTime or LandingTime, a LandingTime
\* before its TakeOffTime, a FlightTime above 240 or the Aircraft "0".
C10_ValueErrorIffOffending ==
    raised # NoSheet =>
        (raised.raises = "ValueError"
            <=> (log_sheet_df = <<>>
                    \/ \E i \in DOMAIN log_sheet_df : Offending(log_sheet_df[i])))

\* C11 as stated: every row of a batch that validate_log_sheet accepts has a
\* FlightTime below 240, a FlightTime of 240 not being below it.
C11_AcceptedBelowCeiling ==
    raised = None =>
        \A i \in DOMAIN log_sheet_df :
            \/ isna(log_sheet_df[i].FlightTime)
            \/ log_sheet_df[i].FlightTime[1] < MAX_FLIGHT_TIME

\* C11 amended: every row of a batch that validate_log_sheet accepts has a
\* FlightTime of at most 240 (or none); 240 itself is accepted.
C11_AcceptedAtMostCeiling ==
    raised = None =>
        \A i \in DOMAIN log_sheet_df :
            \/ isna(log_sheet_df[i].FlightTime)
            \/ log_sheet_df[i].FlightTime[1] <= MAX_FLIGHT_TIME

\* An accepted batch with a flight of exactly 240 minutes.
C11_Witness ==
    /\ raised = None
    /\ \E i \in DOMAIN log_sheet_df : log_sheet_df[i].FlightTime = <<MAX_FLIGHT_TIME>>

(***************************************************************************)
(* Properties of sanitise_log_sheets.                                      *)
(***************************************************************************)
\* sanitise_log_sheets returned a batch.
Sanitised == collated_df.raises = "nothing"
\* The row of the master log with the index of a row of the output.
Origin(r) ==
    log_sheet_df.rows[CHOOSE i \in DOMAIN log_sheet_df.rows :
                        log_sheet_df.rows[i]["index"] = r["index"]]

\* C12: sanitise_log_sheets applied to its own output completes without
\* error and returns a batch equal to that output.
C12_SanitiseIdempotent ==
    twice_df # NotCalled => twice_df = collated_df

\* C13: no row of the output of sanitise_log_sheets has the
\* AircraftCommander "0" or a TakeOffTime at midnight.
C13_NoPlaceholderRows ==
    Sanitised =>
        \A i \in DOMAIN collated_df.returns.rows :
            LET r == collated_df.returns.rows[i]
            IN  /\ r["AircraftCommander"] # <<<<"0">>>>
                /\ isna(r["TakeOffTime"]) \/ time(r["TakeOffTime"]) # Midnight

\* The alias table of the Duty field, on the upper-cased value.
DutyAlias(text) ==
    CASE text = <<"G", "I", "C">> -> <<"G", "I", "F">>
      [] text = <<"S", "G", "S">> -> <<"G", "/", "S">>
      [] text = <<"G", "W", "G", "T">> -> <<"A", "G", "T">>
      [] text = <<"U", "/", "T">> -> <<"S", "C", "T", " ", "U", "/", "T">>
      [] text = <<"Q", "G", "I">> -> <<"S", "C", "T", " ", "Q", "G", "I">>
      [] OTHER -> text

\* C14: the Duty of every output row is the alias of the upper-cased Duty
\* of the input row (GIF for GIC, G/S for SGS, AGT for GWGT, SCT U/T for
\* U/T, SCT QGI for QGI, else the upper-cased value itself), so that two
\* input values that agree once upper-cased give the same output.
C14_DutyAliasLookup ==
    Sanitised =>
        LET out == collated_df.returns.rows
        IN  /\ \A i \in DOMAIN out :
                    out[i]["Duty"] =
                        IF isna(Origin(out[i])["Duty"])
                        THEN Null
                        ELSE <<DutyAlias(upper(Origin(out[i])["Duty"][1]))>>
            /\ \A i, j \in DOMAIN out :
                    str_upper(Origin(out[i])["Duty"]) = str_upper(Origin(out[j])["Duty"])
                        => out[i]["Duty"] = out[j]["Duty"]

\* A lower-case gic came out as GIF beside an upper-case GIC, or a
\* lower-case u/t came out as SCT U/T.
C14_Witness ==
    /\ Sanitised
    /\ \E i, j \in DOMAIN collated_df.returns.rows :
          LET out == collated_df.returns.rows
          IN  /\ i # j
              /\ Origin(out[i])["Duty"] = <<<<"g", "i", "c">>>>
              /\ out[i]["Duty"] = <<<<"G", "I", "F">>>>
              /\ \/ /\ Origin(out[j])["Duty"] = <<<<"G", "I", "C">>>>
                    /\ out[j]["Duty"] = <<<<"G", "I", "F">>>>
                 \/ /\ Origin(out[j])["Duty"] = <<<<"u", "/", "t">>>>
                    /\ out[j]["Duty"] = <<<<"S", "C", "T", " ", "U", "/", "T">>>>

\* C15: the output of sanitise_log_sheets is in ascending order of
\* TakeOffTime with the null TakeOffTimes first: of two adjacent rows the
\* earlier has a null TakeOffTime, or both have one and the earlier's is not
\* the later of the two.
C15_SortedByTakeOffTime ==
    Sanitised =>
        LET out == collated_df.returns.rows
        IN  \A i \in DOMAIN out :
                i + 1 \in DOMAIN out =>
                    \/ isna(out[i]["TakeOffTime"])
                    \/ /\ ~isna(out[i + 1]["TakeOffTime"])
                       /\ out[i]["TakeOffTime"][1] <= out[i + 1]["TakeOffTime"][1]

\* Two launches came in with the later take-off first, or with the null
\* take-off last, and both came out.
C15_Witness ==
    /\ Sanitised
    /\ Len(collated_df.returns.rows) = 2
    /\ LET master == log_sheet_df.rows
       IN  /\ ~isna(master[1]["TakeOffTime"])
           /\ \/ isna(master[2]["TakeOffTime"])
              \/ master[2]["TakeOffTime"][1] < master[1]["TakeOffTime"][1]

(***************************************************************************)
(* Properties of collate_log_sheets.                                       *)
(***************************************************************************)
\* A regular file whose name matches 2965D_*.xlsx.
Matches(e) == e.is_file /\ e.name[1] = "2965D_" /\ e.name[3] = ".xlsx"
\* A file that parses and validates.
Passes(e) == ingest_log_sheet(e).raises = "nothing"
Matching == SelectSeq(dir_contents, Matches)
Passing == SelectSeq(Matching, Passes)
Failing == SelectSeq(Matching, LAMBDA e : ~Passes(e))
NamesOf(entries) == [i \in DOMAIN entries |-> entries[i].name]
SheetsOf(entries) == [i \in DOMAIN entries |-> read_excel(entries[i].holds)]
Collated == collate_pc = "done"

C17_RaisesLastFailure ==
    (Collated /\ Matching # <<>> /\ Passing = <<>>) =>
        collated_df = ingest_log_sheet(Matching[Len(Matching)])

\* C18: with no regular file matching 2965D_*.xlsx in the directory,
\* collate_log_sheets raises FileNotFoundError and has read no file; and no
\* file that does not match is ever handed to ingest_log_sheet.
C18_NoSourcesError ==
    /\ (collate_pc # "idle" /\ Matching = <<>>) =>
            /\ Collated
            /\ collated_df.raises = "FileNotFoundError"
            /\ attempted = <<>>
            /\ log_sheet_list = <<>>
    /\ \A i \in DOMAIN attempted :
            \E j \in DOMAIN dir_contents :
                /\ dir_contents[j].name = attempted[i]
                /\ Matches(dir_contents[j])

\* A directory of two entries, neither a regular file of a matching name,
\* made collate_log_sheets raise FileNotFoundError.
C18_Witness ==
    /\ Collated
    /\ Len(dir_contents) >= 2
    /\ \E i \in DOMAIN dir_contents : ~dir_contents[i].is_file
    /\ \E i \in DOMAIN dir_contents : dir_contents[i].is_file
    /\ collated_df.raises = "FileNotFoundError"

\* C19: the template 2965D_YYMMDD_ZEXXX.xlsx is skipped silently: the
\* collated batch holds the rows of the other passing files only, and no
\* warning names the template.
C19_TemplateSkipped ==
    Collated =>
        /\ \A i \in DOMAIN warnings : warnings[i] # TemplateName
        /\ Sanitised =>
              log_sheet_df =
                concat(SheetsOf(SelectSeq(Passing, LAMBDA e : e.name # TemplateName)))

(***************************************************************************)
(* Properties of ingest_log_sheet_from_upload.                             *)
(***************************************************************************)
\* The workbook has the right suffix and a FORMATTED sheet that validates.
LaunchesPass ==
    /\ upload.name[3] = ".xlsx"
    /\ upload.formatted # <<>>
    /\ validate_log_sheet(upload.formatted[1]) = None
\* The _AIRCRAFT sheet is absent, or cannot be derived or validated.
AircraftFails == read_aircraft_info(upload.aircraft).raises # "nothing"

\* C20: for a workbook whose launches parse and validate, the call returns
\* the Launch batch of the FORMATTED sheet and raises nothing, whatever the
\* _AIRCRAFT sheet; the utilisation batch is empty when that sheet is
\* absent or fails, and is the sheet otherwise.
C20_AircraftFailureIsolated ==
    (ingested # NotIngested /\ LaunchesPass) =>
        /\ ingested.raises = "nothing"
        /\ ingested.raw_df = read_excel(upload.formatted[1])
        /\ ingested.aircraft_info =
              IF AircraftFails
              THEN DataFrame({}, <<>>)
              ELSE DataFrame(AircraftColumns, upload.aircraft[1])

\* A workbook whose _AIRCRAFT sheet has a row with no Hours After, or a
\* row whose Hours After is a text, was ingested: its launches came back.
C20_Witness ==
    /\ ingested # NotIngested
    /\ LaunchesPass
    /\ upload.aircraft # <<>>
    /\ \E i \in DOMAIN upload.aircraft[1] : isna(upload.aircraft[1][i]["Hours After"])
    /\ ingested.raw_df.rows # <<>>
    /\ ingested.aircraft_info.rows = <<>>

(***************************************************************************)
(* Properties of validate_aircraft_info.                                   *)
(***************************************************************************)
\* validate_aircraft_info returned: the batch is accepted.
InfoAccepted == aircraft_raised = None

HasMarker(row) == ~isna(row["Aircraft"]) /\ in_text(<<"Z", "E">>, row["Aircraft"][1])

\* C21: every batch that validate_aircraft_info accepts has the marker 'ZE'
\* in the Aircraft value of every row.
C21_MarkerInEveryRow ==
    InfoAccepted => \A i \in DOMAIN aircraft_info_df : HasMarker(aircraft_info_df[i])

\* C22: a batch that validate_aircraft_info accepts is non-empty, has no
\* missing cell, has every Launches After in [0, 100e6] and every Hours
\* After in (0, 100e3*60].
C22_AcceptedInRange ==
    InfoAccepted =>
        /\ aircraft_info_df # <<>>
        /\ \A i \in DOMAIN aircraft_info_df :
              LET row == aircraft_info_df[i]
              IN /\ \A c \in AircraftColumns : ~isna(row[c])
                 /\ row["Launches After"][1] >= 0
                 /\ row["Launches After"][1] <= 100000000
                 /\ row["Hours After"][1] > 0
                 /\ row["Hours After"][1] <= 6000000

\* A batch of two rows at the ends of the ranges is accepted: no launches
\* in one row, the most launches and the most minutes in the other.
C22_Witness ==
    /\ InfoAccepted
    /\ Len(aircraft_info_df) = 2
    /\ aircraft_info_df[1]["Launches After"] = <<0>>
    /\ aircraft_info_df[1]["Hours After"] = <<1>>
    /\ aircraft_info_df[2]["Launches After"] = <<100000000>>
    /\ aircraft_info_df[2]["Hours After"] = <<6000000>>

(***************************************************************************)
(* Further properties of the synchronisation.                              *)
(***************************************************************************)
\* C23: a call of update_launches_collection or update_aircraft_info with an
\* empty batch issues no backup, delete or insert: no step from its entry on
\* changes any collection of the database, backups included.
C23_EmptyBatchNoOp ==
    [][fn' # "none" /\ df' = <<>> => db' = db /\ ops' = <<>>]_vars

\* update_launches_collection returned on an empty batch: the collection
\* holds a record and no backup of today exists.
C23_Witness ==
    /\ pc = "returned"
    /\ fn = "update_launches_collection"
    /\ df = <<>>
    /\ outcome = Returned("ok", "empty")
    /\ \E r \in LaunchRows : Launches[r] > 0
    /\ BackupName(launches_collection, strftime(clock)) \notin DOMAIN db

\* The collection c and its dated backups are the same before and after
\* the step.
Untouched(c, before, after) ==
    \A n \in DOMAIN before \cup DOMAIN after :
        n[1] = c => /\ n \in DOMAIN before
                    /\ n \in DOMAIN after
                    /\ after[n] = before[n]

\* C24: no step of update_launches_collection changes the aircraft
\* collection or a backup of it, and no step of update_aircraft_info changes
\* the launches collection or a backup of it.
C24_CollectionsIndependent ==
    [][/\ fn' = "update_launches_collection"
            => Untouched(aircraft_info_collection, db, db')
       /\ fn' = "update_aircraft_info"
            => Untouched(launches_collection, db, db')]_vars

\* update_aircraft_info returned without error, having rewritten today's
\* backup of the aircraft collection, while the launches collection holds a
\* record.
C24_Witness ==
    /\ pc = "returned"
    /\ fn = "update_aircraft_info"
    /\ outcome = Returned("ok", "insert_many")
    /\ [name |-> BackupName(aircraft_info_collection, strftime(clock)),
         day |-> strftime(clock)] \in made
    /\ \E r \in LaunchRows : Launches[r] > 0

\* The name of today's backup of the launches collection.
TodaysBackup == BackupName(launches_collection, strftime(clock))

\* The current call of update_launches_collection has left its backup step,
\* completed or not.
BackupStepOver == fn = "update_launches_collection" /\ Issued("backup")

\* It has completed its backup step.
BackupCompleted == BackupStepOver /\ outcome.at # "backup"

\* The call is running, or it was the last one and the clock has not moved
\* since it began.
NoTimePassed == pc # "returned" \/ calls = MaxCalls

SyncedWithoutCollection ==
    /\ fn = "update_launches_collection"
    /\ pc = "returned"
    /\ df # <<>>
    /\ <<launches_collection>> \notin DOMAIN db

\* C29: a call of update_launches_collection on a database without the
\* launches collection ends in its backup step with no bulk delete and no
\* insert issued; unless a store operation failed before it, the error is
\* the ValueError of Database.get_collection.
C29_MissingCollection ==
    SyncedWithoutCollection =>
        /\ outcome.at = "backup"
        /\ outcome.status \in {"ValueError", "StoreError"}
        /\ ops = <<"backup">>
        /\ ~Issued("bulk_write")
        /\ ~Issued("insert_many")

\* The call raised the ValueError of get_collection in the backup step, with
\* a batch of two rows.
C29_Witness ==
    /\ SyncedWithoutCollection
    /\ outcome = Returned("ValueError", "backup")
    /\ Len(df) = 2
    /\ again = NoCall

(***************************************************************************)
(* Properties of two concurrent calls.                                     *)
(***************************************************************************)
BatchOf(w) == writers[w].launches_df

BothReturned == \A w \in Writers : writers[w].pc = "returned"

\* The writes of call `first` were applied before those of call `second`.
Serial(first, second) ==
    schedule = << <<first, "bulk_write">>, <<first, "insert_many">>,
                  <<second, "bulk_write">>, <<second, "insert_many">> >>

\* Both deletes were applied before either insert.
DeletesFirst ==
    /\ Len(schedule) = 4
    /\ schedule[1][2] = "bulk_write"
    /\ schedule[2][2] = "bulk_write"

\* C25: two concurrent calls of update_launches_collection are not ordered
\* against each other.  When their writes happen one call after the other,
\* the keys of the later call's batch hold exactly its rows; when both
\* deletes are applied before either insert, every key the two batches share
\* holds the rows of both batches.
C25_InterleavedWriters ==
    BothReturned =>
        /\ \A first \in Writers, second \in Writers :
              Serial(first, second) =>
                  \A r \in LaunchRows :
                      KeyOf(r) \in KeysIn(BatchOf(second))
                          => Launches[r] = CountIn(BatchOf(second), r)
        /\ DeletesFirst =>
              \A r \in LaunchRows :
                  KeyOf(r) \in KeysIn(BatchOf(1)) \cap KeysIn(BatchOf(2))
                      => Launches[r] = CountIn(BatchOf(1), r) + CountIn(BatchOf(2), r)

\* Both calls have returned, both deletes came before either insert, and
\* under a key of both batches the collection holds a row that only the
\* first batch has and a row that only the second batch has: key-scoped
\* replace holds for neither batch.
C25_Witness ==
    /\ BothReturned
    /\ DeletesFirst
    /\ \E r1 \in LaunchRows, r2 \in LaunchRows :
          /\ KeyOf(r1) = KeyOf(r2)
          /\ CountIn(BatchOf(1), r1) > 0 /\ CountIn(BatchOf(2), r1) = 0
          /\ CountIn(BatchOf(2), r2) > 0 /\ CountIn(BatchOf(1), r2) = 0
          /\ Launches[r1] > 0
          /\ Launches[r2] > 0

(***************************************************************************)
(* Properties of AuthConfig._login.                                        *)
(***************************************************************************)
\* The auth collection holds a document for the vgs of the last call whose
\* password is the password of the last call.
CredentialsMatch ==
    \E d \in AuthDocuments :
        d.vgs = auth_config.vgs /\ d.password = auth_config.password

\* C26: a _login call that returned True, or left authenticated True, was
\* given a vgs and a password that a document of the auth collection holds;
\* a call with a wrong password or an unknown vgs that returned, returned
\* False and left authenticated False, whatever the calls before it.
C26_LoginOnlyWithCredentials ==
    login.calls > 0 /\ login.returns # "raises" =>
        IF CredentialsMatch
        THEN login.returns = "True" <=> auth_config.authenticated
        ELSE login.returns = "False" /\ ~auth_config.authenticated

(***************************************************************************)
(* Properties of upload_log_sheets.                                        *)
(***************************************************************************)
Called(f) == \E i \in DOMAIN session.called : session.called[i][1] = f

Shown(message) == \E i \in DOMAIN session.shown : session.shown[i] = message

\* update_launches_collection was called and raised.
LaunchesSyncRaised ==
    \E i \in DOMAIN session.called :
        session.called[i] = <<"update_launches_collection", "raises">>

\* C28: update_aircraft_info is called only after update_launches_collection
\* returned; when update_launches_collection raised, update_aircraft_info
\* has not been called, the status is "error", and neither the status
\* "complete" nor the message "Log Sheets Uploaded!" was given.
C28_AircraftAfterLaunches ==
    /\ Called("update_aircraft_info") \/ session.pc = "update_aircraft_info"
          => session.called[1] = <<"update_launches_collection", "returns">>
             /\ Len(session.called) <= 2
    /\ LaunchesSyncRaised =>
          /\ session.pc = "done"
          /\ ~Called("update_aircraft_info")
          /\ session.status = <<"error">>
          /\ Shown("Failed to upload log sheets.")
          /\ ~Shown("Log Sheets Uploaded!")

\* The launches sync of an upload that holds aircraft information raised.
C28_Witness ==
    /\ LaunchesSyncRaised
    /\ session.aircraft_info_df.rows # <<>>
    /\ session.collated_df.rows # <<>>
    /\ session.status = <<"error">>

(***************************************************************************)
(* Properties of launches_to_db.                                           *)
(***************************************************************************)
\* launches_to_db returned without error.
SavedToDb ==
    /\ pc = "returned"
    /\ fn = "launches_to_db"
    /\ outcome.status = "ok"

\* C30: during a call of launches_to_db no stored record goes; when the call
\* has returned without error, today's backup holds what the call found and
\* the collection holds what the call found and, once more each, the rows of
\* the batch; after two successful calls with the same batch it holds the
\* rows of the batch twice beside what the first call found.
C30_AppendOnly ==
    /\ fn = "launches_to_db" =>
          \A r \in LaunchRows : Launches[r] >= pre[r]
    /\ SavedToDb =>
          /\ \A r \in LaunchRows : Launches[r] = pre[r] + CountIn(df, r)
          /\ NoTimePassed => db[TodaysBackup] = pre
          /\ again.status = "ok" =>
                \A r \in LaunchRows : Launches[r] = found[r] + 2 * CountIn(df, r)

\* The second of two successful calls with a batch of two rows under one
\* key, which the collection held a record of before the first call: that
\* record is still stored and every row of the batch is stored twice.
C30_Witness ==
    /\ SavedToDb
    /\ again.status = "ok"
    /\ Len(df) = 2
    /\ df[1] # df[2]
    /\ KeyOf(df[1]) = KeyOf(df[2])
    /\ found[df[1]] = 1
    /\ Launches[df[1]] = 3
    /\ Launches[df[2]] = 2

====
